---- MODULE Spec2Model ----
(***************************************************************************)
(* Nested create/update of drf_writable_nested/mixins.py over a small      *)
(* relational store.  A request is one whole serializer call (is_valid +   *)
(* save); the store is the set of rows, the many-to-many join rows and the *)
(* auto-increment counters.  Every write is appended to a log so that the  *)
(* order of persistence can be stated.                                     *)
(***************************************************************************)
EXTENDS Integers, Sequences, FiniteSets, TLC

VARIABLES store, last

vars == <<store, last>>

\* ------------------------------------------------------------------ bounds
\* Longest list of sub-payloads in a collection relation of a request.
MaxLen == 2
\* Largest primary key a table hands out (requests that need more are not taken).
MaxId == 3
\* Number of root rows the create requests may make.
MaxRoots == 2
\* Number of rows in the store when the requests of all save paths mix.
MaxRows == 4

Names == {"a", "b", "c"}

\* ------------------------------------------------------------------ schema
\* The models the nested serializers are declared over.  Root has two direct
\* foreign keys to Owner (owner, backup), a reverse foreign key from Item
\* (children), a reverse one-to-one from Profile (profile) and a many-to-many
\* to Tag (tags).  Item and Sub own a reverse foreign key each (children), which
\* gives three levels of nesting under Root.
Models ==
    {"Root", "Owner", "Item", "Sub", "Leaf", "Profile", "Tag",
     "Child", "Parent", "GrandParent", "ReverseParent", "ReverseChild", "Lock"}

\* Writable nested serializer fields of a model's serializer, in declaration
\* order (self.fields.items()).
NestedFields(m) ==
    CASE m = "Root" -> <<"owner", "backup", "children", "profile", "tags">>
      [] m = "Item" -> <<"children">>
      [] m = "Sub" -> <<"children">>
      [] OTHER -> <<>>

\* Model of the serializer nested under a field (field.Meta.model).
FieldModel(m, f) ==
    CASE m = "Root" /\ f \in {"owner", "backup"} -> "Owner"
      [] m = "Root" /\ f = "children" -> "Item"
      [] m = "Root" /\ f = "profile" -> "Profile"
      [] m = "Root" /\ f = "tags" -> "Tag"
      [] m = "Item" /\ f = "children" -> "Sub"
      [] m = "Sub" /\ f = "children" -> "Leaf"

\* isinstance(field, serializers.ListSerializer): the field was declared many=True.
IsListField(m, f) == f \in {"children", "tags"}

\* _get_related_field: (related_field, direct).  A ForeignObjectRel (the reverse
\* side of a relation declared on the other model) is not direct; a field declared
\* on this model (foreign key, many-to-many) is.
get_related_field(m, f) ==
    CASE f \in {"owner", "backup"} ->
            [name |-> f, direct |-> TRUE, one_to_one |-> FALSE, many_to_many |-> FALSE]
      [] f = "tags" ->
            [name |-> f, direct |-> TRUE, one_to_one |-> FALSE, many_to_many |-> TRUE]
      [] f = "profile" ->
            [name |-> "parent", direct |-> FALSE, one_to_one |-> TRUE, many_to_many |-> FALSE]
      [] OTHER ->
            [name |-> "parent", direct |-> FALSE, one_to_one |-> FALSE, many_to_many |-> FALSE]

\* Models whose serializer puts UniqueFieldsMixin ahead and whose name is unique.
UniqueModels == {"Owner", "Item", "Profile"}

\* Model whose rows hold a cascading foreign key `parent` to rows of m.
Dependents(m) ==
    CASE m = "Root" -> {"Item", "Profile"}
      [] m = "Item" -> {"Sub"}
      [] m = "Sub" -> {"Leaf"}
      [] m = "ReverseParent" -> {"ReverseChild"}
      [] OTHER -> {}

\* Model whose rows hold a protecting foreign key (on_delete=PROTECT, column
\* `child`) to rows of m: a Lock keeps its Item from being deleted.
Protecting(m) == IF m = "Item" THEN {"Lock"} ELSE {}

\* ------------------------------------------------------------------ values
\* None
Null == [null |-> TRUE]
IsNull(v) == "null" \in DOMAIN v

\* dict.get(key) is not None, for a mapping
Has(d, k) == k \in DOMAIN d

\* d[k] = v on a mapping
Put(d, k, v) == [x \in DOMAIN d \cup {k} |-> IF x = k THEN v ELSE d[x]]

\* dict.pop(key)
Pop(d, k) == [x \in DOMAIN d \ {k} |-> d[x]]

\* K applied to the result v of a call: `v = call(...)`, then the statements K
\* that use v.
Then(v, K(_)) == K(v)

\* str(pk): the decimal digits of a primary key.
RECURSIVE Str(_)
Str(n) == IF n < 10 THEN <<n>> ELSE Str(n \div 10) \o <<n % 10>>

\* Error details.  A detail is a message list, a mapping of one field name to a
\* detail, a positional list of details, or the empty mapping {}.
NoErr == [k |-> "none", key |-> "", val |-> <<>>]
EmptyDetail == [k |-> "empty", key |-> "", val |-> <<>>]
Msg(code) == [k |-> "msg", key |-> code, val |-> <<>>]
Under(field, detail) == [k |-> "dict", key |-> field, val |-> <<detail>>]
ListDetail(details) == [k |-> "list", key |-> "", val |-> details]
\* An exception that is not a ValidationError (IntegrityError, KeyError, ...).
Exc(code) == [k |-> "exc", key |-> code, val |-> <<>>]

IsValidationError(e) == e.k \in {"msg", "dict", "list", "empty"}
IsExc(e) == e.k = "exc"
Failed(e) == e.k # "none"
\* bool(detail): an empty mapping or list is falsy
Truthy(e) == e.k \in {"msg", "dict"} \/ (e.k = "list" /\ e.val # <<>>)

\* ------------------------------------------------------------------ store
Row(m, pk, name, parent, owner, backup, child) ==
    [m |-> m, pk |-> pk, name |-> name, parent |-> parent, owner |-> owner,
     backup |-> backup, child |-> child]

EmptyWorld ==
    [rows |-> {}, links |-> {}, next |-> [m \in Models |-> 1], log |-> <<>>]

\* One write of the store, as the log records it.
Emit(w, ev, m, pk, pks, path) ==
    [w EXCEPT !.log = Append(@, [ev |-> ev, m |-> m, pk |-> pk, pks |-> pks,
                                 path |-> path])]

RowsOf(w, m) == {r \in w.rows : r.m = m}

Exists(w, m, pk) == \E r \in w.rows : r.m = m /\ r.pk = pk

GetRow(w, m, pk) == CHOOSE r \in w.rows : r.m = m /\ r.pk = pk

\* attrs.get(key, default) for the columns of a row
Attr(attrs, k, default) == IF Has(attrs, k) THEN attrs[k] ELSE default

\* A one-to-one column holds each parent at most once.
OneToOneClash(w, m, pk, parent) ==
    /\ m = "Profile"
    /\ \E r \in w.rows : r.m = m /\ r.pk # pk /\ r.parent = parent

\* Model.objects.create(**attrs) / Model(**attrs).save(): the row gets the next
\* primary key of its table.
OrmCreate(w, m, attrs, path) ==
    LET pk == w.next[m]
        row == Row(m, pk, Attr(attrs, "name", ""), Attr(attrs, "parent", 0),
                   Attr(attrs, "owner", 0), Attr(attrs, "backup", 0),
                   Attr(attrs, "child", 0))
    IN  IF OneToOneClash(w, m, pk, row.parent)
        THEN [w |-> w, err |-> Exc("IntegrityError"), inst |-> 0]
        ELSE [w |-> Emit([w EXCEPT !.rows = @ \cup {row}, !.next[m] = pk + 1],
                         "insert", m, pk, {}, path),
              err |-> NoErr, inst |-> pk]

\* setattr(instance, attr, value) for every attr, then instance.save(): the
\* instance is the row as it was fetched.
OrmUpdate(w, obj, attrs, path) ==
    LET row == [c \in DOMAIN obj |-> IF Has(attrs, c) THEN attrs[c] ELSE obj[c]]
    IN  IF OneToOneClash(w, obj.m, obj.pk, row.parent)
        THEN [w |-> w, err |-> Exc("IntegrityError"), inst |-> obj.pk]
        ELSE [w |-> Emit([w EXCEPT !.rows =
                              {r \in @ : ~(r.m = obj.m /\ r.pk = obj.pk)} \cup {row}],
                         "update", obj.m, obj.pk, {}, path),
              err |-> NoErr, inst |-> obj.pk]

\* The rows a delete of `doomed` takes with it: rows whose cascading foreign
\* key points at a deleted row, transitively.
RECURSIVE Cascade(_, _)
Cascade(w, doomed) ==
    LET more == {r \in w.rows : \E d \in doomed :
                    r.m \in Dependents(d.m) /\ r.parent = d.pk}
    IN  IF more \subseteq doomed THEN doomed ELSE Cascade(w, doomed \cup more)

\* The rows that hold a protecting foreign key to one of the rows `doomed`.
ProtectedObjects(w, doomed) ==
    {r \in w.rows : \E d \in doomed : r.m \in Protecting(d.m) /\ r.child = d.pk}

\* QuerySet.delete() on the rows of model m with a primary key in pks.  The
\* rows to delete are collected first: a protecting row met by the collection
\* raises ProtectedError(msg, protected_objects) and no row is deleted.
OrmDelete(w, m, pks, path) ==
    LET doomed == Cascade(w, {r \in w.rows : r.m = m /\ r.pk \in pks})
        gone(l) == \E d \in doomed :
                      \/ d.m = "Root" /\ l[1] = d.pk
                      \/ d.m = "Tag" /\ l[2] = d.pk
    IN  IF ProtectedObjects(w, doomed) # {}
        THEN [w |-> w, err |-> Exc("ProtectedError"),
              args |-> ProtectedObjects(w, doomed)]
        ELSE [w |-> Emit([w EXCEPT !.rows = @ \ doomed,
                                   !.links = {l \in @ : ~gone(l)}],
                         "delete", m, 0, pks, path),
              err |-> NoErr, args |-> {}]

\* ------------------------------------------------------------------ mixins
\* _get_related_pk: the primary key a sub-payload names, as a string, or None
\* (the empty string here).
get_related_pk(data) ==
    LET first == IF Has(data, "pk") THEN data["pk"] ELSE 0
        pk == IF first # 0 THEN first ELSE IF Has(data, "id") THEN data["id"] ELSE 0
    IN  IF pk # 0 THEN Str(pk) ELSE <<>>

\* filter(None, related_data): the items that are not None and not empty
Truthies(related_data) ==
    SelectSeq(related_data, LAMBDA d : ~IsNull(d) /\ DOMAIN d # {})

\* _extract_related_pks
extract_related_pks(related_data) ==
    LET items == Truthies(related_data)
    IN  {get_related_pk(items[i]) : i \in DOMAIN items} \ {<<>>}

\* _prefetch_related_instances: the rows named by the sub-payloads, by str(pk)
prefetch_related_instances(w, tm, related_data) ==
    {r \in RowsOf(w, tm) : Str(r.pk) \in extract_related_pks(related_data)}

\* instances.get(key)
InstanceFor(instances, key) ==
    IF \E r \in instances : Str(r.pk) = key
    THEN CHOOSE r \in instances : Str(r.pk) = key
    ELSE Null

\* The validated data of a serializer over its initial data: the writable
\* fields present in the payload (the primary key is read-only and `pk` is no
\* field, so neither is validated data).
Validated(m, data) ==
    LET nested == {NestedFields(m)[i] : i \in DOMAIN NestedFields(m)}
    IN  [x \in DOMAIN data \cap ({"name"} \cup nested) |-> data[x]]

\* Models whose serializer gives `owner` the default CurrentUserDefault().
ContextModels == {"Sub", "Leaf"}

\* CurrentUserDefault: context['request'].user of the serializer the field
\* belongs to.
CurrentUserDefault(context) ==
    IF Has(context, "request")
    THEN [err |-> NoErr, value |-> context["request"].user]
    ELSE [err |-> Exc("KeyError"), value |-> Null]

\* serializer.is_valid(raise_exception=True) of a serializer self over its
\* data: a field left out takes its default, is required, or (partial) is
\* skipped.
run_validation(m, self, data) ==
    LET given == Validated(m, data)
        user == CurrentUserDefault(self.context)
    IN  IF self.partial THEN [err |-> NoErr, validated_data |-> given]
        ELSE IF m \in ContextModels /\ Failed(user.err)
        THEN [err |-> user.err, validated_data |-> given]
        ELSE IF ~Has(data, "name")
        THEN [err |-> Under("name", Msg("required")), validated_data |-> given]
        ELSE IF m \in ContextModels
        THEN [err |-> NoErr, validated_data |-> Put(given, "owner", user.value)]
        ELSE [err |-> NoErr, validated_data |-> given]

\* _get_serializer_for_field, without the context
get_serializer_for_fieldBare(self, instance) ==
    [context |-> <<>>,
     partial |-> IF IsNull(instance) THEN FALSE ELSE self.partial]

\* _get_serializer_for_field, handing the parent's partial flag on whether or
\* not an instance was found
get_serializer_for_fieldInherit(self, instance) ==
    [context |-> self.context, partial |-> self.partial]

\* _get_serializer_for_field(field, instance=obj, data=data): the state of the
\* serializer made for a sub-payload by the serializer self.
get_serializer_for_field(self, instance) ==
    [context |-> self.context,
     partial |-> IF IsNull(instance) THEN FALSE ELSE self.partial]

\* _extract_relations, taking a direct relation that is None as well
extract_relationsNullToo(m, validated_data) ==
    LET fields == NestedFields(m)
        isDirect(f) ==
            /\ ~IsListField(m, f)
            /\ Has(validated_data, f)
            /\ get_related_field(m, f).direct
        isReverse(f) ==
            /\ Has(validated_data, f)
            /\ \/ IsListField(m, f)
               \/ ~get_related_field(m, f).direct
        popped == {f \in {fields[i] : i \in DOMAIN fields} : isDirect(f) \/ isReverse(f)}
    IN  [relations |-> SelectSeq(fields, isDirect),
         reverse_relations |-> SelectSeq(fields, isReverse),
         validated_data |-> [x \in DOMAIN validated_data \ popped |-> validated_data[x]]]

\* _extract_relations: the direct relations, the reverse relations (both in
\* field order) and what is left of validated_data.
extract_relations(m, validated_data) ==
    LET fields == NestedFields(m)
        isDirect(f) ==
            /\ ~IsListField(m, f)
            /\ Has(validated_data, f)
            /\ ~IsNull(validated_data[f])
            /\ get_related_field(m, f).direct
        isReverse(f) ==
            /\ Has(validated_data, f)
            /\ \/ IsListField(m, f)
               \/ ~get_related_field(m, f).direct
        popped == {f \in {fields[i] : i \in DOMAIN fields} : isDirect(f) \/ isReverse(f)}
    IN  [relations |-> SelectSeq(fields, isDirect),
         reverse_relations |-> SelectSeq(fields, isReverse),
         validated_data |-> [x \in DOMAIN validated_data \ popped |-> validated_data[x]]]

\* _validate_unique_fields: UniqueValidator over Model.objects.all(), the
\* serializer's own instance excluded.  validated_data[field_name] is read for
\* every recorded unique field, given or not.
validate_unique_fields(w, m, obj, validated_data) ==
    IF m \in UniqueModels /\ ~Has(validated_data, "name")
    THEN Exc("KeyError")
    ELSE
    IF /\ m \in UniqueModels
       /\ \E r \in RowsOf(w, m) :
             /\ r.name = validated_data["name"]
             /\ (IsNull(obj) \/ r.pk # obj.pk)
    THEN Under("name", Msg("unique"))
    ELSE NoErr

\* list(reverse_relations.items()), not reversed
ReversedNot(s) == s

\* reversed(list(reverse_relations.items()))
Reversed(s) == [i \in 1..Len(s) |-> s[Len(s) + 1 - i]]

\* A keyword argument of save that is no dict (a number, a string, a list).
NotAMapping == [not_a_mapping |-> TRUE]

\* isinstance(save_kwargs, dict)
IsMapping(v) == "not_a_mapping" \notin DOMAIN v

\* _get_save_kwargs(field_name): self._save_kwargs is a defaultdict(dict) of
\* the keyword arguments given to save; an entry that is no dict raises
\* TypeError.
get_save_kwargs(kwargs, f) ==
    IF ~Has(kwargs, f) THEN [err |-> NoErr, save_kwargs |-> <<>>]
    ELSE IF ~IsMapping(kwargs[f]) THEN [err |-> Exc("TypeError"), save_kwargs |-> <<>>]
    ELSE [err |-> NoErr, save_kwargs |-> kwargs[f]]

\* data['pk'] = related_instance.pk, without the assignment
MarkSavedDropped(data, pk) == data

\* data['pk'] = related_instance.pk: the sub-payload of the initial data is
\* changed in place, so the deletion phase reads the key of a created child.
MarkSaved(data, pk) == Put(data, "pk", pk)

\* errors.append({}), without the append
NoteSavedDropped(errors) == errors

\* errors.append({}): a saved item holds its place in the list of errors.
NoteSaved(errors) == Append(errors, EmptyDetail)

\* raise ValidationError({field_name: exc.detail}), without the field name
RaiseUnderDropped(f, detail) == detail

\* raise ValidationError({field_name: exc.detail})
RaiseUnder(f, detail) == Under(f, detail)

\* save_kwargs[related_field.name] = instance, without the assignment
OwnedByDropped(save_kwargs, related_field, instance) == save_kwargs

\* The keyword arguments of the children's save: for a relation that is not
\* many-to-many, save_kwargs[related_field.name] = instance.
OwnedBy(save_kwargs, related_field, instance) ==
    IF related_field.many_to_many
    THEN save_kwargs
    ELSE Put(save_kwargs, related_field.name, instance)

RECURSIVE Save(_, _, _, _, _, _, _)
RECURSIVE update_or_create_direct_relations(_, _, _, _, _, _, _, _, _)
RECURSIVE SaveItems(_, _, _, _, _, _, _, _, _)
RECURSIVE update_or_create_reverse_relations(_, _, _, _, _, _, _, _, _)

\* The column values of a row from validated attributes: a related instance
\* is stored as its primary key, None as NULL.
Columns(attrs) ==
    [x \in DOMAIN attrs |->
        IF x \in {"owner", "backup", "child"}
        THEN IF IsNull(attrs[x]) THEN 0 ELSE attrs[x].pk
        ELSE attrs[x]]

\* update_or_create_direct_relations, from the i-th relation on: each target
\* is validated and saved, and attrs gets its instance.
update_or_create_direct_relations(m, self, i, relations, attrs, data, kwargs, w, path) ==
    IF i > Len(relations)
    THEN [w |-> w, err |-> NoErr, attrs |-> attrs, data |-> data]
    ELSE IF ~Has(data, relations[i])
    THEN [w |-> w, err |-> Exc("KeyError"), attrs |-> attrs, data |-> data]
    ELSE
        LET f == relations[i]
            d == data[f]
            tm == FieldModel(m, f)
            pk == get_related_pk(d)
            found == {r \in RowsOf(w, tm) : Str(r.pk) = pk}
            obj == IF found # {} THEN CHOOSE r \in found : TRUE ELSE Null
            serializer == get_serializer_for_field(self, obj)
            given == get_save_kwargs(kwargs, f)
        IN  IF ~Failed(run_validation(tm, serializer, d).err) /\ Failed(given.err)
            THEN [w |-> w, err |-> given.err, attrs |-> attrs, data |-> data]
            ELSE
            Then(Save(tm, serializer, obj, d, given.save_kwargs, w,
                      Append(path, <<f, 0>>)),
                 LAMBDA r :
            IF IsValidationError(r.err)
            THEN [w |-> r.w, err |-> RaiseUnder(f, r.err), attrs |-> attrs,
                  data |-> Put(data, f, r.data)]
            ELSE IF IsExc(r.err)
            THEN [w |-> r.w, err |-> r.err, attrs |-> attrs,
                  data |-> Put(data, f, r.data)]
            ELSE update_or_create_direct_relations(
                     m, self, i + 1, relations, Put(attrs, f, [pk |-> r.inst]),
                     Put(data, f, r.data), kwargs, r.w, path))

\* The loop over related_data of update_or_create_reverse_relations, from the
\* j-th item on: items is related_data as the loop has changed it so far.
SaveItems(tm, self, j, items, instances, save_kwargs, acc, w, path) ==
    IF j > Len(items) \/ IsExc(acc.exc)
    THEN [w |-> w, items |-> items, errors |-> acc.errors,
          new_related_instances |-> acc.new_related_instances, exc |-> acc.exc]
    ELSE
        LET data == items[j]
            obj == InstanceFor(instances, get_related_pk(data))
        IN  Then(Save(tm, get_serializer_for_field(self, obj), obj, data, save_kwargs,
                      w, Append(path[1], <<path[2], j>>)),
                 LAMBDA r :
            IF IsExc(r.err)
            THEN SaveItems(tm, self, j + 1, [items EXCEPT ![j] = r.data], instances,
                           save_kwargs, [acc EXCEPT !.exc = r.err], r.w, path)
            ELSE IF IsValidationError(r.err)
            THEN SaveItems(tm, self, j + 1, [items EXCEPT ![j] = r.data], instances,
                           save_kwargs,
                           [acc EXCEPT !.errors = Append(@, r.err)], r.w, path)
            ELSE SaveItems(tm, self, j + 1,
                           [items EXCEPT ![j] = MarkSaved(r.data, r.inst)],
                           instances, save_kwargs,
                           [acc EXCEPT !.errors = NoteSaved(@),
                                       !.new_related_instances = Append(@, r.inst)],
                           r.w, path))

\* m2m_manager.add(*instances)
M2mAdd(w, pk, instances, path) ==
    IF instances = <<>> THEN w
    ELSE Emit([w EXCEPT !.links = @ \cup {<<pk, instances[i]>> : i \in DOMAIN instances}],
              "add", "Tag", pk, {instances[i] : i \in DOMAIN instances}, path)

\* related_data[pk_name] = related_instance.pk, without the assignment
fill_in_pkSkipped(related_data, pk_name, linked) == related_data

\* If an object already exists, fill in the pk: the sub-payload of a one-to-one
\* relation that names no key gets the key of the row linked to the instance.
fill_in_pk(related_data, pk_name, linked) ==
    IF ~Has(related_data, pk_name) /\ linked # {}
    THEN Put(related_data, pk_name, (CHOOSE r \in linked : TRUE).pk)
    ELSE related_data

\* update_or_create_reverse_relations, from the i-th relation on.
update_or_create_reverse_relations(m, self, instance, i, reverse_relations, data, kwargs, w, path) ==
    IF i > Len(reverse_relations)
    THEN [w |-> w, err |-> NoErr, data |-> data]
    ELSE
        LET f == reverse_relations[i]
            related_field == get_related_field(m, f)
            tm == FieldModel(m, f)
            skip == ~Has(data, f) \/ (~IsListField(m, f) /\ IsNull(data[f]))
        IN  IF skip
            THEN update_or_create_reverse_relations(
                     m, self, instance, i + 1, reverse_relations, data, kwargs, w, path)
            ELSE
            LET raw == data[f]
                pk_name == IF ~Has(raw, "id") /\ Has(raw, "pk") THEN "pk" ELSE "id"
                linked == {r \in RowsOf(w, tm) : r.parent = instance}
                one == fill_in_pk(raw, pk_name, linked)
                related_data == IF related_field.one_to_one THEN <<one>> ELSE raw
                instances == prefetch_related_instances(w, tm, related_data)
                given == get_save_kwargs(kwargs, f)
                save_kwargs == OwnedBy(given.save_kwargs, related_field, instance)
            IN  IF Failed(given.err)
                THEN [w |-> w, err |-> given.err,
                      data |-> IF related_field.one_to_one THEN Put(data, f, one)
                               ELSE data]
                ELSE
                Then(SaveItems(tm, self, 1, related_data, instances, save_kwargs,
                               [errors |-> <<>>, new_related_instances |-> <<>>,
                                exc |-> NoErr],
                               w, <<path, f>>),
                     LAMBDA s :
                LET after == Put(data, f, IF related_field.one_to_one
                                          THEN s.items[1] ELSE s.items)
                    anyErrors == \E e \in DOMAIN s.errors : Truthy(s.errors[e])
                IN
                IF IsExc(s.exc)
                THEN [w |-> s.w, err |-> s.exc, data |-> after]
                ELSE IF anyErrors
                THEN [w |-> s.w,
                      err |-> IF related_field.one_to_one
                              THEN Under(f, s.errors[1])
                              ELSE Under(f, ListDetail(s.errors)),
                      data |-> after]
                ELSE update_or_create_reverse_relations(
                         m, self, instance, i + 1, reverse_relations, after, kwargs,
                         IF related_field.many_to_many
                         THEN M2mAdd(s.w, instance, s.new_related_instances,
                                     Append(path, <<f, 0>>))
                         ELSE s.w,
                         path))

\* m2m_manager.remove(*pks)
M2mRemove(w, pk, pks, path) ==
    Emit([w EXCEPT !.links = {l \in @ : ~(l[1] = pk /\ l[2] \in pks)}],
         "remove", "Tag", pk, pks, path)

\* The removal of the stale rows, without the many-to-many branch
RemoveStaleAlwaysDelete(w, related_field, tm, instance, pks, path) ==
    OrmDelete(w, tm, pks, path)

\* The removal of the stale rows: a many-to-many relation loses its join rows
\* only, any other relation loses the rows themselves.
RemoveStale(w, related_field, tm, instance, pks, path) ==
    IF related_field.many_to_many
    THEN [w |-> M2mRemove(w, instance, pks, path), err |-> NoErr, args |-> {}]
    ELSE OrmDelete(w, tm, pks, path)

\* str(instance) of a row, "<Model> object (<pk>)": the model and the digit of
\* the primary key.
StrOfInstance(r) ==
    [k |-> "msg", key |-> r.m,
     val |-> << Msg(<<"0", "1", "2", "3", "4", "5", "6", "7", "8", "9">>[r.pk + 1]) >>]

\* The rows of a set in the order of their primary keys.
RECURSIVE InPkOrder(_)
InPkOrder(rows) ==
    IF rows = {} THEN <<>>
    ELSE LET first == CHOOSE r \in rows : \A x \in rows : r.pk <= x.pk
         IN  <<first>> \o InPkOrder(rows \ {first})

\* The translation of ProtectedError, without the translation
failRaw(key, instances) == Exc("ProtectedError")

\* self.fail(key, instances=", ".join(str(instance) ...)): a validation error
\* with the message of `key`, formatted with the instances it names.
fail(key, instances) ==
    [k |-> "msg", key |-> key,
     val |-> [i \in 1..Cardinality(instances) |->
                 StrOfInstance(InPkOrder(instances)[i])]]

\* model_class.objects.filter(), without the lookup
related_field_lookupAny(w, related_field, tm, instance) == RowsOf(w, tm)

\* model_class.objects.filter(**related_field_lookup): the rows of the related
\* model that the relation links to the instance, through the join rows of a
\* many-to-many relation and through the foreign key of any other.
related_field_lookup(w, related_field, tm, instance) ==
    IF related_field.many_to_many
    THEN {r \in RowsOf(w, tm) : <<instance, r.pk>> \in w.links}
    ELSE {r \in RowsOf(w, tm) : r.parent = instance}

\* delete_reverse_relations_if_need, from the i-th of the reversed relations on.
RECURSIVE delete_reverse_relations_if_need(_, _, _, _, _, _, _)
delete_reverse_relations_if_need(m, instance, i, reversed, data, w, path) ==
    IF i > Len(reversed)
    THEN [w |-> w, err |-> NoErr]
    ELSE
        LET f == reversed[i]
            related_field == get_related_field(m, f)
            tm == FieldModel(m, f)
        IN  IF ~Has(data, f)
            THEN [w |-> w, err |-> Exc("KeyError")]
            ELSE
            LET related_data == IF related_field.one_to_one THEN <<data[f]>> ELSE data[f]
                current_ids == extract_related_pks(related_data)
                linked == related_field_lookup(w, related_field, tm, instance)
                pks_to_delete == {r.pk : r \in {x \in linked : Str(x.pk) \notin current_ids}}
                here == Append(path, <<f, 0>>)
            IN  Then(RemoveStale(w, related_field, tm, instance, pks_to_delete, here),
                     LAMBDA d :
                IF d.err = Exc("ProtectedError")
                THEN [w |-> d.w, err |-> fail("cannot_delete_protected", d.args)]
                ELSE delete_reverse_relations_if_need(
                         m, instance, i + 1, reversed, data, d.w, path))

\* NestedCreateMixin.create, with UniqueFieldsMixin.create ahead of it.
create(m, self, validated_data, data, kwargs, w, path) ==
    LET u == validate_unique_fields(w, m, Null, validated_data)
        ex == extract_relations(m, validated_data)
    IN  IF Failed(u) THEN [w |-> w, err |-> u, inst |-> 0, data |-> data]
        ELSE
        Then(update_or_create_direct_relations(
                 m, self, 1, ex.relations, ex.validated_data, data, kwargs, w, path),
             LAMBDA d :
        IF Failed(d.err) THEN [w |-> d.w, err |-> d.err, inst |-> 0, data |-> d.data]
        ELSE
        Then(OrmCreate(d.w, m, Columns(d.attrs), path),
             LAMBDA c :
        IF Failed(c.err) THEN [w |-> c.w, err |-> c.err, inst |-> 0, data |-> d.data]
        ELSE
        Then(update_or_create_reverse_relations(
                 m, self, c.inst, 1, ex.reverse_relations, d.data, kwargs, c.w, path),
             LAMBDA r :
        [w |-> r.w, err |-> r.err, inst |-> c.inst, data |-> r.data])))

\* NestedUpdateMixin.update, with UniqueFieldsMixin.update ahead of it.
update(m, self, instance, validated_data, data, kwargs, w, path) ==
    LET u == validate_unique_fields(w, m, instance, validated_data)
        ex == extract_relations(m, validated_data)
    IN  IF Failed(u) THEN [w |-> w, err |-> u, inst |-> instance.pk, data |-> data]
        ELSE
        Then(update_or_create_direct_relations(
                 m, self, 1, ex.relations, ex.validated_data, data, kwargs, w, path),
             LAMBDA d :
        IF Failed(d.err)
        THEN [w |-> d.w, err |-> d.err, inst |-> instance.pk, data |-> d.data]
        ELSE
        Then(OrmUpdate(d.w, instance, Columns(d.attrs), path),
             LAMBDA c :
        IF Failed(c.err)
        THEN [w |-> c.w, err |-> c.err, inst |-> instance.pk, data |-> d.data]
        ELSE
        Then(update_or_create_reverse_relations(
                 m, self, c.inst, 1, ex.reverse_relations, d.data, kwargs, c.w, path),
             LAMBDA r :
        IF Failed(r.err)
        THEN [w |-> r.w, err |-> r.err, inst |-> instance.pk, data |-> r.data]
        ELSE
        Then(delete_reverse_relations_if_need(
                 m, c.inst, 1, Reversed(ex.reverse_relations), r.data, r.w, path),
             LAMBDA x :
        [w |-> x.w, err |-> x.err, inst |-> instance.pk, data |-> r.data]))))

\* BaseNestedModelSerializer.save of a serializer built with (instance, data):
\* the keyword arguments join validated_data, and the serializer's instance
\* decides between update and create.
Save(m, self, instance, data, kwargs, w, path) ==
    LET v == run_validation(m, self, data)
        validated_data ==
            [x \in DOMAIN v.validated_data \cup DOMAIN kwargs |->
                IF Has(kwargs, x) THEN kwargs[x] ELSE v.validated_data[x]]
    IN  IF Failed(v.err)
        THEN [w |-> w, err |-> v.err, data |-> data,
              inst |-> IF IsNull(instance) THEN 0 ELSE instance.pk]
        ELSE IF IsNull(instance)
        THEN create(m, self, validated_data, data, kwargs, w, path)
        ELSE update(m, self, instance, validated_data, data, kwargs, w, path)

\* ------------------------------------------------------------------ related save
\* The serializers of tests/test_nested_serializer_mixins.py that save through
\* RelatedSaveMixin and GetOrCreateNestedSerializerMixin are named as there:
\* ParentSerializer, GrandParentSerializer, NestedParentSerializer,
\* ChildSerializer, ReverseParentSerializer and ReverseChildSerializer.
\* The serializers of ReverseParent: the one of the tests, and one that is
\* itself nested with get-or-create (GetOrCreateNestedSerializerMixin over
\* Meta.model = ReverseParent with children = ReverseChildSerializer(many=True)).
ReverseParentSerializers == {"ReverseParentSerializer", "NestedReverseParentSerializer"}

\* NestedGrandParentSerializer is a get-or-create serializer over a serializer
\* that saves through RelatedSaveMixin.save
\* (GetOrCreateNestedSerializerMixin over Meta.model = GrandParent with
\* child = ParentSerializer()); with many=True it is the child of a
\* GetOrCreateListSerializer.
\* Meta.model
SerializerModel(s) ==
    CASE s = "ChildSerializer" -> "Child"
      [] s \in {"ParentSerializer", "NestedParentSerializer"} -> "Parent"
      [] s \in {"GrandParentSerializer", "NestedGrandParentSerializer"} -> "GrandParent"
      [] s \in ReverseParentSerializers -> "ReverseParent"
      [] s = "ReverseChildSerializer" -> "ReverseChild"

\* self.fields of a serializer with Meta.fields = '__all__', in order.
get_fields(s) ==
    CASE s = "ChildSerializer" -> <<"id", "name">>
      [] s = "ReverseChildSerializer" -> <<"id", "name", "parent">>
      [] s \in ReverseParentSerializers -> <<"id", "children">>
      [] OTHER -> <<"id", "child">>

\* field.read_only: the automatic primary key.
ReadOnly(s, f) == f = "id"

\* The serializer class of a field that is a nested serializer ("" for a field
\* that is none); for a many=True field, the list serializer's child.
FieldSerializer(s, f) ==
    CASE s \in {"ParentSerializer", "NestedParentSerializer"} /\ f = "child" ->
            "ChildSerializer"
      [] s = "GrandParentSerializer" /\ f = "child" -> "NestedParentSerializer"
      [] s = "NestedGrandParentSerializer" /\ f = "child" -> "ParentSerializer"
      [] s \in ReverseParentSerializers /\ f = "children" -> "ReverseChildSerializer"
      [] OTHER -> ""

\* isinstance(field, serializers.BaseSerializer)
IsBaseSerializer(s, f) == FieldSerializer(s, f) # ""

\* isinstance(field, serializers.ListSerializer)
IsListSerializer(s, f) == s \in ReverseParentSerializers /\ f = "children"

\* RelatedSaveMixin._get_related_field: (related_field, direct).  A
\* ForeignObjectRel gives the foreign key on the other model and is not direct.
related_field_of(s, f) ==
    IF IsListSerializer(s, f)
    THEN [name |-> "parent", direct |-> FALSE]
    ELSE [name |-> f, direct |-> TRUE]

\* The serializers that mix GetOrCreateNestedSerializerMixin in.
GetOrCreateSerializers ==
    {"NestedParentSerializer", "ChildSerializer", "ReverseChildSerializer",
     "NestedReverseParentSerializer"}

\* match_on as __init__ accepts it: a collection of strings or the string
\* '__all__'.  keys is what `for key in self.match_on` iterates over: the
\* members of the collection, or the characters of the string.
DEFAULT_MATCH_ON == [all |-> FALSE, keys |-> <<"pk">>]
MatchOnName == [all |-> FALSE, keys |-> <<"name">>]
MatchOnAll == [all |-> TRUE, keys |-> <<"_", "_", "a", "l", "l", "_", "_">>]

\* The validated data of serializer s over initial data: the writable fields
\* that are present, nested serializers validated in turn.
RECURSIVE to_internal_value(_, _)
to_internal_value(s, data) ==
    LET fields == {get_fields(s)[i] : i \in DOMAIN get_fields(s)}
        writable == {f \in fields : ~ReadOnly(s, f)}
    IN  [f \in DOMAIN data \cap writable |->
            IF ~IsBaseSerializer(s, f) THEN data[f]
            ELSE IF IsListSerializer(s, f)
            THEN [j \in DOMAIN data[f] |->
                     to_internal_value(FieldSerializer(s, f), data[f][j])]
            ELSE to_internal_value(FieldSerializer(s, f), data[f])]

\* _get_reverse_fields: the writable fields that are reverse relations.
get_reverse_fields(s) ==
    LET reverse(f) == ~ReadOnly(s, f) /\ ~related_field_of(s, f).direct
    IN  SelectSeq(get_fields(s), reverse)

\* _extract_reverse_relations: the reverse relations that are given leave the
\* validated data, each with the keyword arguments of its name.
extract_reverse_relations(s, validated_data, kwargs) ==
    LET given(f) == Has(validated_data, f) /\ IsBaseSerializer(s, f)
        taken == SelectSeq(get_reverse_fields(s), given)
        names == {taken[i] : i \in DOMAIN taken}
    IN  [related_objects |->
            [i \in DOMAIN taken |->
                [field |-> taken[i],
                 related_field |-> related_field_of(s, taken[i]),
                 data |-> validated_data[taken[i]],
                 kwargs |-> IF Has(kwargs, taken[i]) THEN kwargs[taken[i]] ELSE <<>>]],
         validated_data |-> [x \in DOMAIN validated_data \ names |-> validated_data[x]],
         kwargs |-> [x \in DOMAIN kwargs \ names |-> kwargs[x]]]

\* field.required of a writable field as the model serializers declare it: a
\* TextField, a foreign key that is not null and a nested serializer are all
\* required.
Required(s, f) == ~ReadOnly(s, f)

\* _make_reverse_relations_valid, leaving every field required
make_reverse_relations_validSkipped(s, data) == {}

\* _make_reverse_relations_valid: for each reverse field the data gives, the
\* field of the nested serializer whose source is the foreign key back at this
\* model stops being required.  The result is the <<serializer, field>> pairs
\* whose required flag is cleared.
make_reverse_relations_valid(s, data) ==
    LET given(f) == Has(data, f) /\ (IsListSerializer(s, f) \/ ~IsNull(data[f]))
        taken == SelectSeq(get_reverse_fields(s), given)
    IN  {<<FieldSerializer(s, taken[i]), related_field_of(s, taken[i]).name>> :
            i \in DOMAIN taken}

\* is_valid() of serializer s over initial data, as the error it leaves:
\* RelatedSaveMixin.to_internal_value clears the required flags, then every
\* writable field is validated, a nested serializer by its own run_validation
\* and a list item by item.  optional holds the flags cleared so far.
RECURSIVE ValidationError(_, _, _)
ValidationError(s, data, optional) ==
    LET cleared == optional \cup make_reverse_relations_valid(s, data)
        check(f) ==
            IF ReadOnly(s, f) THEN NoErr
            ELSE IF ~Has(data, f)
            THEN IF Required(s, f) /\ <<s, f>> \notin cleared
                 THEN Msg("required") ELSE NoErr
            ELSE IF ~IsBaseSerializer(s, f) THEN NoErr
            ELSE IF IsListSerializer(s, f)
            THEN Then([j \in DOMAIN data[f] |->
                          ValidationError(FieldSerializer(s, f), data[f][j], cleared)],
                      LAMBDA items :
                 IF \A j \in DOMAIN items : ~Failed(items[j]) THEN NoErr
                 ELSE ListDetail([j \in DOMAIN items |->
                                     IF Failed(items[j]) THEN items[j] ELSE EmptyDetail]))
            ELSE IF IsNull(data[f]) THEN Msg("null")
            ELSE ValidationError(FieldSerializer(s, f), data[f], cleared)
        failing == SelectSeq(get_fields(s), LAMBDA f : Failed(check(f)))
    IN  IF failing = <<>> THEN NoErr
        ELSE Under(failing[1], check(failing[1]))

\* The lookups of queryset.get(**match_on): the fields of the serializer that
\* match_on selects, then every key of match_on that is no field.
MatchKeys(s, match_on) ==
    LET fields == {get_fields(s)[i] : i \in DOMAIN get_fields(s)}
        keys == {match_on.keys[i] : i \in DOMAIN match_on.keys}
    IN  {f \in fields : match_on.all \/ f \in keys} \cup (keys \ fields)

\* The names a lookup on model m can resolve.
LookupNames(m) ==
    {"pk", "id"} \cup
        CASE m = "Child" -> {"name"}
          [] m = "ReverseChild" -> {"name", "parent"}
          [] OTHER -> {"child"}

\* The value of the column a lookup name stands for.
Column(r, key) == IF key \in {"pk", "id"} THEN r.pk ELSE r[key]

\* queryset.get(**match_on), the value of each lookup being
\* validated_data.get(key): a name that is no field of the model raises
\* FieldError, a lookup of None matches no row (the columns are not null), no
\* row raises DoesNotExist and several raise MultipleObjectsReturned.
queryset_get(w, m, keys, validated_data) ==
    LET rows == {r \in RowsOf(w, m) :
                    \A key \in keys :
                        /\ Has(validated_data, key)
                        /\ Column(r, key) = Columns(validated_data)[key]}
    IN  IF ~(keys \subseteq LookupNames(m))
        THEN [err |-> Exc("FieldError"), match |-> Null]
        ELSE IF Cardinality(rows) > 1
        THEN [err |-> Exc("MultipleObjectsReturned"), match |-> Null]
        ELSE IF rows = {}
        THEN [err |-> NoErr, match |-> Null]
        ELSE [err |-> NoErr, match |-> CHOOSE r \in rows : TRUE]

RECURSIVE GetOrCreateSave(_, _, _, _, _, _)
RECURSIVE save_direct_relations(_, _, _, _, _, _, _)
RECURSIVE GetOrCreateListSave(_, _, _, _, _, _, _)
RECURSIVE save_reverse_relations(_, _, _, _, _, _, _)

\* field.save(**kwargs), done twice
FieldSaveTwice(s, validated_data, kwargs, match_on, w, path) ==
    Then(GetOrCreateSave(s, validated_data, kwargs, match_on, w, path),
         LAMBDA once :
    IF Failed(once.err) THEN once
    ELSE GetOrCreateSave(s, validated_data, kwargs, match_on, once.w, path))

\* field.save(**kwargs) of a nested serializer after its validated data was
\* reinjected: the serializers nested under a field saved here are get-or-create serializers.
FieldSave(s, validated_data, kwargs, match_on, w, path) ==
    GetOrCreateSave(s, validated_data, kwargs, match_on, w, path)

\* self._validated_data[field_name] = field.save(...), the instance lost
ReinjectLost(validated_data, f, inst) == Put(validated_data, f, Null)

\* self._validated_data[field_name] = field.save(...): the saved instance
\* takes the place of the field's validated data.
Reinject(validated_data, f, inst) == Put(validated_data, f, [pk |-> inst])

\* _save_direct_relations, from the i-th field on.
save_direct_relations(s, i, validated_data, kwargs, match_on, w, path) ==
    IF i > Len(get_fields(s))
    THEN [w |-> w, err |-> NoErr, validated_data |-> validated_data, kwargs |-> kwargs]
    ELSE
        LET f == get_fields(s)[i]
            saves ==
                /\ ~ReadOnly(s, f)
                /\ IsBaseSerializer(s, f)
                /\ Has(validated_data, f)
                /\ ~IsNull(validated_data[f])
                /\ related_field_of(s, f).direct
        IN  IF ~saves
            THEN save_direct_relations(s, i + 1, validated_data, kwargs, match_on, w, path)
            ELSE
            Then(FieldSave(FieldSerializer(s, f), validated_data[f],
                           IF Has(kwargs, f) THEN kwargs[f] ELSE <<>>,
                           match_on, w, Append(path, <<f, 0>>)),
                 LAMBDA r :
            IF Failed(r.err)
            THEN [w |-> r.w, err |-> r.err, validated_data |-> validated_data,
                  kwargs |-> Pop(kwargs, f)]
            ELSE save_direct_relations(s, i + 1, Reinject(validated_data, f, r.inst),
                                       Pop(kwargs, f), match_on, r.w, path))

\* GetOrCreateListSerializer.save, from the j-th item on: the one child
\* serializer saves each item in turn.
GetOrCreateListSave(s, j, items, kwargs, match_on, w, path) ==
    IF j > Len(items)
    THEN [w |-> w, err |-> NoErr, inst |-> 0]
    ELSE
        Then(GetOrCreateSave(s, items[j], kwargs, match_on, w,
                             Append(path[1], <<path[2], j>>)),
             LAMBDA r :
        IF Failed(r.err) THEN r
        ELSE GetOrCreateListSave(s, j + 1, items, kwargs, match_on, r.w, path))

\* _save_reverse_relations, from the i-th related object on: the instance is
\* injected under the name of the foreign key and the field is saved.
save_reverse_relations(s, i, related_objects, instance, match_on, w, path) ==
    IF i > Len(related_objects)
    THEN [w |-> w, err |-> NoErr, inst |-> instance]
    ELSE
        LET o == related_objects[i]
            name == o.related_field.name
        IN  Then(IF IsListSerializer(s, o.field)
                 THEN GetOrCreateListSave(
                          FieldSerializer(s, o.field), 1,
                          [j \in DOMAIN o.data |-> Put(o.data[j], name, instance)],
                          o.kwargs, match_on, w, <<path, o.field>>)
                 ELSE FieldSave(FieldSerializer(s, o.field),
                                Put(o.data, name, instance), o.kwargs, match_on, w,
                                Append(path, <<o.field, 1>>)),
                 LAMBDA r :
            IF Failed(r.err) THEN [w |-> r.w, err |-> r.err, inst |-> instance]
            ELSE save_reverse_relations(s, i + 1, related_objects, instance,
                                        match_on, r.w, path))

\* GetOrCreateNestedSerializerMixin.save: the keyword arguments join the
\* validated data, the direct relations are saved, the row that match_on finds
\* is updated or a new one is made, then the reverse relations are saved.
GetOrCreateSave(s, validated_data, kwargs, match_on, w, path) ==
    LET joined == [x \in DOMAIN validated_data \cup DOMAIN kwargs |->
                      IF Has(kwargs, x) THEN kwargs[x] ELSE validated_data[x]]
        ex == extract_reverse_relations(s, joined, kwargs)
        m == SerializerModel(s)
    IN  Then(save_direct_relations(s, 1, ex.validated_data, ex.kwargs, match_on, w, path),
             LAMBDA d :
        IF Failed(d.err) THEN [w |-> d.w, err |-> d.err, inst |-> 0]
        ELSE
        Then(queryset_get(d.w, m, MatchKeys(s, match_on[s]), d.validated_data),
             LAMBDA q :
        IF Failed(q.err) THEN [w |-> d.w, err |-> q.err, inst |-> 0]
        ELSE
        Then(IF IsNull(q.match)
             THEN OrmCreate(d.w, m, Columns(d.validated_data), path)
             ELSE OrmUpdate(d.w, q.match, Columns(d.validated_data), path),
             LAMBDA c :
        IF Failed(c.err) THEN [w |-> c.w, err |-> c.err, inst |-> 0]
        ELSE save_reverse_relations(s, 1, ex.related_objects, c.inst, match_on, c.w, path))))

\* if self._is_saved, with the flag ignored
AlreadySavedIgnored(is_saved) == FALSE

\* if self._is_saved: return
AlreadySaved(is_saved) == is_saved

\* RelatedSaveMixin.save of a serializer built with data only: the reverse
\* relations leave the validated data, the direct relations are saved,
\* super().save(**kwargs) creates the row from the validated data and the
\* keyword arguments that are left, the serializer is marked saved and the
\* reverse relations are saved.  A serializer already saved does nothing.
RelatedSave(s, is_saved, validated_data, kwargs, match_on, w, path) ==
    LET ex == extract_reverse_relations(s, validated_data, kwargs)
    IN  IF AlreadySaved(is_saved)
        THEN [w |-> w, err |-> NoErr, inst |-> 0, is_saved |-> is_saved,
              validated_data |-> validated_data]
        ELSE
        Then(save_direct_relations(s, 1, ex.validated_data, ex.kwargs, match_on, w, path),
             LAMBDA d :
        IF Failed(d.err)
        THEN [w |-> d.w, err |-> d.err, inst |-> 0, is_saved |-> FALSE,
              validated_data |-> d.validated_data]
        ELSE
        Then(OrmCreate(d.w, SerializerModel(s),
                       Columns([x \in DOMAIN d.validated_data \cup DOMAIN d.kwargs |->
                                   IF Has(d.kwargs, x) THEN d.kwargs[x]
                                   ELSE d.validated_data[x]]),
                       path),
             LAMBDA c :
        IF Failed(c.err)
        THEN [w |-> c.w, err |-> c.err, inst |-> 0, is_saved |-> FALSE,
              validated_data |-> d.validated_data]
        ELSE
        Then(save_reverse_relations(s, 1, ex.related_objects, c.inst, match_on, c.w, path),
             LAMBDA r :
        [w |-> r.w, err |-> r.err, inst |-> r.inst, is_saved |-> TRUE,
         validated_data |-> d.validated_data])))

\* GetOrCreateListSerializer.save over NestedGrandParentSerializer, from the
\* j-th item on.  self.child saves every item, and so does the one
\* ParentSerializer that is its field `child`: is_saved is the _is_saved of
\* that field.  _save_direct_relations puts what field.save() returns in the
\* place of the field's data, None when the field took the call for a save
\* already made, and GrandParent.child takes no NULL.
RECURSIVE GetOrCreateListSaveOverRelated(_, _, _, _, _, _)
GetOrCreateListSaveOverRelated(j, items, is_saved, match_on, w, new_values) ==
    IF j > Len(items)
    THEN [w |-> w, err |-> NoErr, new_values |-> new_values, is_saved |-> is_saved]
    ELSE
        LET s == "NestedGrandParentSerializer"
            path == << <<"items", j>> >>
        IN  Then(RelatedSave(FieldSerializer(s, "child"), is_saved, items[j]["child"],
                             <<>>, match_on, w, Append(path, <<"child", 0>>)),
                 LAMBDA d :
            IF Failed(d.err)
            THEN [w |-> d.w, err |-> d.err, new_values |-> new_values,
                  is_saved |-> d.is_saved]
            ELSE
            Then(IF AlreadySaved(is_saved)
                 THEN Put(items[j], "child", Null)
                 ELSE Reinject(items[j], "child", d.inst),
                 LAMBDA validated_data :
            Then(queryset_get(d.w, SerializerModel(s), MatchKeys(s, DEFAULT_MATCH_ON),
                              validated_data),
                 LAMBDA q :
            IF IsNull(validated_data["child"])
            THEN [w |-> d.w, err |-> Exc("IntegrityError"), new_values |-> new_values,
                  is_saved |-> d.is_saved]
            ELSE
            Then(IF IsNull(q.match)
                 THEN OrmCreate(d.w, SerializerModel(s), Columns(validated_data), path)
                 ELSE OrmUpdate(d.w, q.match, Columns(validated_data), path),
                 LAMBDA c :
            GetOrCreateListSaveOverRelated(j + 1, items, d.is_saved, match_on, c.w,
                                           Append(new_values, c.inst))))))

\* ------------------------------------------------------------------ validators
\* Longest validator list a field or a serializer is declared with.
MaxValidators == 2

\* The validators a field may carry, and those a serializer may carry.
FieldValidators == {"UniqueValidator", "MaxLengthValidator"}
SerializerValidators == {"UniqueTogetherValidator", "ProhibitValidator"}

\* isinstance(validator, UniqueValidator)
IsUniqueValidator(v) == v = "UniqueValidator"

\* isinstance(validator, UniqueTogetherValidator)
IsUniqueTogetherValidator(v) == v = "UniqueTogetherValidator"

\* A value the other validators reject: a name longer than max_length, which
\* the serializer-level ProhibitValidator rejects as well.
LongName == "long"

\* remove_validation_unique: the unique validators leave the fields' lists and
\* the unique-together validators leave the serializer's list; what was
\* removed is returned by field name, the serializer's own under '_'.
remove_validation_unique(self) ==
    [self |->
        [self EXCEPT
            !.fields = [f \in DOMAIN @ |->
                           SelectSeq(@[f], LAMBDA v : ~IsUniqueValidator(v))],
            !.validators = SelectSeq(@, LAMBDA v : ~IsUniqueTogetherValidator(v))],
     fields |-> [f \in DOMAIN self.fields |->
                    SelectSeq(self.fields[f], IsUniqueValidator)],
     together |-> SelectSeq(self.validators, IsUniqueTogetherValidator)]

\* The message of a validator called on the name of the data against the rows
\* of the serializer's model ("" when it passes).
Validate(v, s, data, w) ==
    CASE v \in {"UniqueValidator", "UniqueTogetherValidator"} ->
            IF \E r \in RowsOf(w, SerializerModel(s)) : r.name = data["name"]
            THEN "unique" ELSE ""
      [] v = "MaxLengthValidator" ->
            IF data["name"] = LongName THEN "max_length" ELSE ""
      [] OTHER -> IF data["name"] = LongName THEN "prohibited" ELSE ""

\* The messages of a validator list, in the order of the list.
Messages(validators, s, data, w) ==
    LET failing == SelectSeq(validators, LAMBDA v : Validate(v, s, data, w) # "")
    IN  [i \in DOMAIN failing |-> Msg(Validate(failing[i], s, data, w))]

\* super().run_validation(data): the validators of the writable fields, then,
\* when no field failed, the validators of the serializer.
SuperRunValidation(self, s, data, w) ==
    LET ofName == Messages(self.fields["name"], s, data, w)
        ofSelf == Messages(self.validators, s, data, w)
    IN  IF ofName # <<>> THEN Under("name", ListDetail(ofName))
        ELSE IF ofSelf # <<>> THEN Under("non_field_errors", ListDetail(ofSelf))
        ELSE NoErr

\* restore_validation_unique: the unique-together validators are appended to
\* the serializer's list; `fields = self.fields.items()` is a view, and
\* fields['name'] on it raises TypeError for the first field validator to
\* put back.
restore_validation_unique(self, unique_validators) ==
    LET restored == [self EXCEPT !.validators = @ \o unique_validators.together]
    IN  IF \E f \in DOMAIN unique_validators.fields : unique_validators.fields[f] # <<>>
        THEN [self |-> restored, err |-> Exc("TypeError")]
        ELSE [self |-> restored, err |-> NoErr]

\* GetOrCreateNestedSerializerMixin.run_validation
GetOrCreateRunValidation(self, s, data, w) ==
    LET removed == remove_validation_unique(self)
        failure == SuperRunValidation(removed.self, s, data, w)
    IN  IF Failed(failure)
        THEN [self |-> removed.self, err |-> failure]
        ELSE restore_validation_unique(
                 removed.self, [fields |-> removed.fields, together |-> removed.together])

\* ------------------------------------------------------------------ requests
\* The store without the log of the request that produced it.
Persisted(w) == [rows |-> w.rows, links |-> w.links, next |-> w.next]

\* The store as a request finds it, with an empty log.
World(st) == [rows |-> st.rows, links |-> st.links, next |-> st.next, log |-> <<>>]

NoRequest ==
    [op |-> "none", instance |-> 0, payload |-> <<>>, data |-> <<>>,
     pre |-> Persisted(EmptyWorld), err |-> NoErr, log |-> <<>>,
     match_on |-> <<>>, serializer |-> <<>>, kwargs |-> <<>>]

\* A serializer made by a view for a full (PUT/POST) request of user 1.
Plain == [context |-> [request |-> [user |-> [pk |-> 1]]], partial |-> FALSE]

\* The primary key an item of a payload names (0: none).
NamedPk(item) ==
    IF Has(item, "pk") /\ item["pk"] # 0 THEN item["pk"]
    ELSE IF Has(item, "id") THEN item["id"] ELSE 0

\* Sequences over S of length 0..n
SeqsUpTo(S, n) == UNION {[1..k -> S] : k \in 0..n}

\* The request fits the tables: no table hands out a key above MaxId and no
\* more than MaxRoots roots exist.
Fits(w) ==
    /\ \A m \in Models : w.next[m] <= MaxId + 1
    /\ w.next["Root"] <= MaxRoots + 1

\* serializer = S(instance, data=payload, context=.., partial=..);
\* is_valid(); save(**kwargs), for the serializer S of model m.
SerializerSave(op, m, self, instance, payload, kwargs) ==
    /\ last.op = "none"
    /\ \E r \in {Save(m, self, instance, payload, kwargs, World(store), <<>>)} :
           /\ Fits(r.w)
           /\ store' = Persisted(r.w)
           /\ last' = [op |-> op, instance |-> r.inst, payload |-> payload,
                       data |-> r.data, pre |-> store, err |-> r.err,
                       log |-> r.w.log, match_on |-> <<>>,
                       serializer |-> self, kwargs |-> kwargs]

\* serializer = RootSerializer(data=payload, context=.., partial=..);
\* is_valid(); save(**kwargs)
NestedCreateBy(self, payload, kwargs) ==
    SerializerSave("create", "Root", self, Null, payload, kwargs)

\* serializer = RootSerializer(instance, data=payload, context=.., partial=..);
\* is_valid(); save(**kwargs)
NestedUpdateBy(self, pk, payload, kwargs) ==
    /\ Exists(World(store), "Root", pk)
    /\ SerializerSave("update", "Root", self, GetRow(World(store), "Root", pk),
                      payload, kwargs)

\* serializer = RootSerializer(data=payload); is_valid(); save()
NestedCreate(payload) == NestedCreateBy(Plain, payload, <<>>)

\* serializer = RootSerializer(instance, data=payload); is_valid(); save()
NestedUpdate(pk, payload) == NestedUpdateBy(Plain, pk, payload, <<>>)

Init ==
    /\ store = Persisted(EmptyWorld)
    /\ last = NoRequest

\* Payloads of a root with a list of children, each a sub-payload of a reverse
\* foreign key: a name, with or without a primary key.
ChildrenPayloads ==
    LET ItemPayloads == [name : Names] \cup [id : 1..MaxId, name : Names]
    IN  {[name |-> "a", children |-> c] : c \in SeqsUpTo(ItemPayloads, MaxLen)}

CreateWithChildren == \E p \in ChildrenPayloads : NestedCreate(p)

UpdateWithChildren ==
    \E pk \in 1..MaxRoots : \E p \in ChildrenPayloads : NestedUpdate(pk, p)

\* The response is returned and the request's serializer is dropped: what is
\* left of the request is the store.
Respond ==
    /\ last.op # "none"
    /\ last' = NoRequest
    /\ UNCHANGED store

Spec ==
    Init /\ [][\/ CreateWithChildren
               \/ UpdateWithChildren
               \/ Respond]_vars

\* Requests whose children may clash on their unique name and whose root may
\* carry a one-to-one profile.
ClashNames == {"a", "b"}

ClashPayloads ==
    LET ClashItemPayloads == [name : ClashNames] \cup [id : {1}, name : ClashNames]
        lists == SeqsUpTo(ClashItemPayloads, MaxLen)
    IN  {[name |-> "a", children |-> c] : c \in lists}
        \cup {[name |-> "a", children |-> c, profile |-> p] :
                 c \in {l \in lists : Len(l) <= 1}, p \in [name : ClashNames]}

CreateClash == \E p \in ClashPayloads : NestedCreate(p)

UpdateClash == \E pk \in 1..MaxRoots : \E p \in ClashPayloads : NestedUpdate(pk, p)

SpecErrors ==
    Init /\ [][\/ CreateClash
               \/ UpdateClash
               \/ Respond]_vars

\* Requests with direct relations: an owner (given, null or left out), a
\* backup owner and at most one child.
OwnerPayloads == [name : ClashNames] \cup [id : {1}, name : ClashNames]

DirectPayloads ==
    LET base == {[name |-> "a"]} \cup {[name |-> "a", children |-> <<[name |-> "a"]>>]}
        withOwner == base \cup {Put(p, "owner", o) : p \in base, o \in OwnerPayloads \cup {Null}}
    IN  withOwner \cup {Put(p, "backup", o) : p \in withOwner, o \in [name : ClashNames]}

CreateDirect == \E p \in DirectPayloads : NestedCreate(p)

UpdateDirect == \E pk \in 1..MaxRoots : \E p \in DirectPayloads : NestedUpdate(pk, p)

SpecDirect ==
    Init /\ [][\/ CreateDirect
               \/ UpdateDirect
               \/ Respond]_vars

\* Requests through RelatedSaveMixin and GetOrCreateNestedSerializerMixin: the
\* serializers of the tests, with the children's match_on left at its default,
\* set to the name, or set to '__all__'.
ChildData == [name : ClashNames] \cup [id : {1}, name : ClashNames]

ParentData == [child : ChildData]

ReverseParentData == [children : SeqsUpTo([name : ClashNames], MaxLen)]

\* The store is small enough for the save paths to be explored together.
Small(st) == Cardinality(st.rows) <= MaxRows

\* Payloads of a root with an owner, for the nested create and update.
OwnedPayloads == {[name |-> "a", owner |-> o] : o \in OwnerPayloads}

\* Every get-or-create serializer matching on the primary key.
MatchOnPk == [s \in GetOrCreateSerializers |-> DEFAULT_MATCH_ON]

MatchOnConfigs ==
    {[s \in GetOrCreateSerializers |->
         IF s \in {"NestedParentSerializer", "NestedReverseParentSerializer"}
         THEN DEFAULT_MATCH_ON ELSE mo] :
     mo \in {DEFAULT_MATCH_ON, MatchOnName, MatchOnAll}}

\* serializer = S(data=payload); is_valid(); save() for a serializer S whose
\* save is RelatedSaveMixin.save
SaveRelated(s, payload, match_on) ==
    /\ last.op = "none"
    /\ \E v \in {ValidationError(s, payload, {})} :
       \E r \in {IF Failed(v)
                 THEN [w |-> World(store), err |-> v, inst |-> 0, is_saved |-> FALSE,
                       validated_data |-> <<>>]
                 ELSE RelatedSave(s, FALSE, to_internal_value(s, payload), <<>>,
                                  match_on, World(store), <<>>)} :
           /\ Fits(r.w)
           /\ Small(r.w)
           /\ store' = Persisted(r.w)
           /\ last' = [op |-> s, instance |-> r.inst, payload |-> payload,
                       data |-> payload, pre |-> store, err |-> r.err,
                       log |-> r.w.log, match_on |-> match_on, kwargs |-> <<>>,
                       serializer |-> [class |-> s, is_saved |-> r.is_saved,
                                       validated_data |-> r.validated_data]]

\* The serializers whose save is RelatedSaveMixin.save.
RelatedSaveSerializers ==
    {"ParentSerializer", "GrandParentSerializer", "ReverseParentSerializer"}

\* serializer.save() once more, on the serializer of the request before: a
\* serializer that has persisted its row takes this call.
SaveAgain ==
    /\ last.op \in RelatedSaveSerializers \cup {"save_again"}
    /\ last.serializer.is_saved
    /\ \E r \in {RelatedSave(last.serializer.class, last.serializer.is_saved,
                               last.serializer.validated_data, <<>>, last.match_on,
                               World(store), <<>>)} :
           /\ Fits(r.w)
           /\ Small(r.w)
           /\ store' = Persisted(r.w)
           /\ last' = [op |-> "save_again", instance |-> r.inst,
                       payload |-> last.payload, data |-> last.payload,
                       pre |-> store, err |-> r.err, log |-> r.w.log,
                       match_on |-> last.match_on, kwargs |-> <<>>,
                       serializer |-> [class |-> last.serializer.class,
                                       is_saved |-> r.is_saved,
                                       validated_data |-> r.validated_data]]

\* serializer = S(data=payload); is_valid(); save() for a serializer S whose
\* save is GetOrCreateNestedSerializerMixin.save
SaveGetOrCreate(s, payload, match_on) ==
    /\ last.op = "none"
    /\ \E v \in {ValidationError(s, payload, {})} :
       \E r \in {IF Failed(v) THEN [w |-> World(store), err |-> v, inst |-> 0]
                 ELSE GetOrCreateSave(s, to_internal_value(s, payload), <<>>,
                                      match_on, World(store), <<>>)} :
           /\ Fits(r.w)
           /\ Small(r.w)
           /\ store' = Persisted(r.w)
           /\ last' = [op |-> s, instance |-> r.inst, payload |-> payload,
                       data |-> payload, pre |-> store, err |-> r.err,
                       log |-> r.w.log, match_on |-> match_on,
                       serializer |-> Plain, kwargs |-> <<>>]

SaveParent ==
    \E p \in ParentData : \E mo \in MatchOnConfigs : SaveRelated("ParentSerializer", p, mo)

SaveGrandParent ==
    \E p \in [child : ParentData] : \E mo \in MatchOnConfigs :
        SaveRelated("GrandParentSerializer", p, mo)

SaveReverseParent ==
    \E p \in ReverseParentData : \E mo \in MatchOnConfigs :
        SaveRelated("ReverseParentSerializer", p, mo)

SaveChild ==
    \E p \in ChildData : \E mo \in MatchOnConfigs : SaveGetOrCreate("ChildSerializer", p, mo)

SaveNestedParent ==
    \E p \in ParentData : \E mo \in MatchOnConfigs :
        SaveGetOrCreate("NestedParentSerializer", p, mo)

\* serializer = NestedGrandParentSerializer(data=payload, many=True);
\* is_valid(); save()
SaveList ==
    /\ last.op = "none"
    /\ \E payload \in SeqsUpTo([child : ParentData], MaxLen) : \E match_on \in {MatchOnPk} :
       \E v \in {[j \in DOMAIN payload |->
                     ValidationError("NestedGrandParentSerializer", payload[j], {})]} :
       \E r \in {IF \E j \in DOMAIN v : Failed(v[j])
                 THEN [w |-> World(store), err |-> ListDetail(v), new_values |-> <<>>,
                       is_saved |-> FALSE]
                 ELSE GetOrCreateListSaveOverRelated(
                          1, [j \in DOMAIN payload |->
                                 to_internal_value("NestedGrandParentSerializer", payload[j])],
                          FALSE, match_on, World(store), <<>>)} :
           /\ Fits(r.w)
           /\ Small(r.w)
           /\ store' = Persisted(r.w)
           /\ last' = [op |-> "save_list", instance |-> 0, payload |-> payload,
                       data |-> r.new_values, pre |-> store, err |-> r.err,
                       log |-> r.w.log, match_on |-> match_on, kwargs |-> <<>>,
                       serializer |-> [class |-> "NestedGrandParentSerializer",
                                       is_saved |-> r.is_saved]]

\* Requests that save a list through GetOrCreateListSerializer.save, next to
\* the single saves of the serializers under it.
SpecList ==
    Init /\ [][\/ SaveList
               \/ SaveParent
               \/ SaveChild
               \/ Respond]_vars

CreateOwned == \E p \in OwnedPayloads : NestedCreate(p) /\ Small(store')

UpdateOwned ==
    \E pk \in 1..MaxRoots : \E p \in OwnedPayloads : NestedUpdate(pk, p) /\ Small(store')

SpecSavePaths ==
    Init /\ [][\/ CreateOwned
               \/ UpdateOwned
               \/ SaveParent
               \/ SaveGrandParent
               \/ SaveReverseParent
               \/ SaveChild
               \/ SaveNestedParent
               \/ Respond]_vars

\* Requests through RelatedSaveMixin.save whose serializer is saved again.
SpecReentry ==
    Init /\ [][\/ SaveParent
               \/ SaveGrandParent
               \/ SaveReverseParent
               \/ SaveAgain
               \/ Respond]_vars

\* Requests with a many-to-many list of tags.
TagsPayloads ==
    LET TagPayloads == [name : {"a"}] \cup [id : 1..MaxId, name : {"a"}]
    IN  {[name |-> "a", tags |-> t] : t \in SeqsUpTo(TagPayloads, MaxLen)}

CreateTags == \E p \in TagsPayloads : NestedCreate(p)

UpdateTags == \E pk \in 1..MaxRoots : \E p \in TagsPayloads : NestedUpdate(pk, p)

SpecM2M ==
    Init /\ [][\/ CreateTags
               \/ UpdateTags
               \/ Respond]_vars

\* Requests that nest children one, two or three levels deep under the root:
\* items, their subs and their leaves.
DeepPayloads ==
    LET LeafPayloads == [name : {"a"}] \cup [id : {1}, name : {"a"}]
        SubPayloads ==
            [name : {"a"}] \cup
                {[name |-> "a", children |-> l] : l \in SeqsUpTo(LeafPayloads, 1)}
        base == [name : ClashNames] \cup [id : {1}, name : ClashNames]
        DeepItemPayloads ==
            base \cup {Put(b, "children", l) : b \in base, l \in SeqsUpTo(SubPayloads, 1)}
    IN  {[name |-> "a", children |-> c] : c \in SeqsUpTo(DeepItemPayloads, MaxLen)}

\* The primary keys the leaves under the items name, one entry per leaf (each
\* item has at most one sub and each sub at most one leaf).
LeafKeys(items) ==
    {<<i, NamedPk(items[i]["children"][1]["children"][1])>> :
        i \in {j \in DOMAIN items :
                  /\ Has(items[j], "children")
                  /\ items[j]["children"] # <<>>
                  /\ Has(items[j]["children"][1], "children")
                  /\ items[j]["children"][1]["children"] # <<>>
                  /\ NamedPk(items[j]["children"][1]["children"][1]) # 0}}

\* No primary key is named by two sub-payloads of the same model.
NamesEachKeyOnce(items) ==
    /\ \A i, j \in DOMAIN items :
           (i # j /\ NamedPk(items[i]) # 0) => NamedPk(items[i]) # NamedPk(items[j])
    /\ \A x, y \in LeafKeys(items) : x[2] = y[2] => x = y

CreateDeep == \E p \in DeepPayloads : NestedCreate(p)

SpecDeep ==
    Init /\ [][\/ CreateDeep
               \/ Respond]_vars

\* Requests over children that a protecting row may reference: a Lock is made
\* for an existing item (Lock.objects.create(child=item)), and the updates
\* leave children out.
GuardedPayloads ==
    LET GuardedItemPayloads == [name : Names] \cup [id : 1..MaxLen, name : {"a"}]
    IN  {[name |-> "a", children |-> c] : c \in SeqsUpTo(GuardedItemPayloads, MaxLen)}

Protect ==
    /\ last.op = "none"
    /\ \E pk \in 1..MaxId :
           /\ Exists(World(store), "Item", pk)
           /\ \E r \in {OrmCreate(World(store), "Lock", [child |-> pk], <<>>)} :
                  /\ Fits(r.w)
                  /\ store' = Persisted(r.w)
    /\ UNCHANGED last

CreateGuarded == \E p \in GuardedPayloads : NestedCreate(p)

UpdateGuarded == \E pk \in 1..MaxRoots : \E p \in GuardedPayloads : NestedUpdate(pk, p)

SpecProtected ==
    Init /\ [][\/ CreateGuarded
               \/ UpdateGuarded
               \/ Protect
               \/ Respond]_vars

\* Requests against the serializer of the items itself (UniqueFieldsMixin
\* ahead of the nested mixins, name unique): create, update and partial update,
\* which may leave the name out.
Partial == [Plain EXCEPT !.partial = TRUE]

NamePayloads == [name : Names]

CreateItem ==
    \E p \in NamePayloads : SerializerSave("create_item", "Item", Plain, Null, p, <<>>)

UpdateItem ==
    \E pk \in 1..MaxId : \E p \in NamePayloads :
        /\ Exists(World(store), "Item", pk)
        /\ SerializerSave("update_item", "Item", Plain,
                          GetRow(World(store), "Item", pk), p, <<>>)

PatchItem ==
    \E pk \in 1..MaxId : \E p \in NamePayloads \cup {[children |-> <<>>]} :
        /\ Exists(World(store), "Item", pk)
        /\ SerializerSave("update_item", "Item", Partial,
                          GetRow(World(store), "Item", pk), p, <<>>)

SpecUnique ==
    Init /\ [][\/ CreateItem
               \/ UpdateItem
               \/ PatchItem
               \/ Respond]_vars

\* Partial (PATCH) and full requests against the root serializer, whose owner
\* and tags may leave the name out when the request is partial: the root's own
\* validation skips what a partial request leaves out, in the nested fields as
\* well.
CreatePatched ==
    \E p \in LET PatchOwnerPayloads == {[name |-> "a"], [id |-> 1], [id |-> 1, name |-> "b"]}
                 PatchTagPayloads == {[name |-> "a"], [id |-> 1], [id |-> 2]}
                 base == {[name |-> "a"]}
                 owned == base \cup {Put(b, "owner", o) : b \in base, o \in PatchOwnerPayloads}
             IN  owned \cup {Put(b, "tags", <<t>>) : b \in owned, t \in PatchTagPayloads} :
        NestedCreateBy(Partial, p, <<>>) /\ Small(store')

PatchRoot ==
    \E pk \in 1..MaxRoots :
        \E p \in LET PatchOwnerPayloads == {[name |-> "a"], [id |-> 1], [id |-> 1, name |-> "b"]}
                     PatchTagPayloads == {[name |-> "a"], [id |-> 1], [id |-> 2]}
                     base == {<<>>, [name |-> "b"]}
                     owned == base \cup {Put(b, "owner", o) : b \in base, o \in PatchOwnerPayloads}
                 IN  owned \cup {Put(b, "tags", <<t>>) : b \in owned, t \in PatchTagPayloads} :
            NestedUpdateBy(Partial, pk, p, <<>>) /\ Small(store')

PutRoot ==
    \E pk \in 1..MaxRoots :
        \E p \in {[name |-> "a", owner |-> o, tags |-> t] :
                      o \in {[name |-> "b"], [id |-> 1, name |-> "a"]},
                      t \in {<<>>, <<[name |-> "a"]>>, <<[id |-> 1, name |-> "b"]>>}} :
            NestedUpdateBy(Plain, pk, p, <<>>) /\ Small(store')

SpecPartial ==
    Init /\ [][\/ CreatePatched
               \/ PatchRoot
               \/ PutRoot
               \/ Respond]_vars

\* Requests whose save is given keyword arguments under the names of relation
\* fields: a dict, or something that is none; the payload may leave the
\* field out.
KeywordArguments ==
    LET KeywordValues == {<<>>, NotAMapping}
    IN  {<<>>} \cup UNION {[{f} -> KeywordValues] : f \in {"owner", "backup", "children"}}

KeywordPayloads ==
    LET base == {[name |-> "a"]}
        owned == base \cup {Put(p, "owner", o) : p \in base, o \in [name : ClashNames]}
        backed == owned \cup {Put(p, "backup", [name |-> "c"]) : p \in owned}
    IN  backed \cup {Put(p, "children", <<[name |-> "a"]>>) : p \in backed}

CreateWithKeywords ==
    \E p \in KeywordPayloads : \E k \in KeywordArguments :
        NestedCreateBy(Plain, p, k) /\ Small(store')

UpdateWithKeywords ==
    \E pk \in 1..MaxRoots : \E p \in KeywordPayloads : \E k \in KeywordArguments :
        NestedUpdateBy(Plain, pk, p, k) /\ Small(store')

SpecKeywords ==
    Init /\ [][\/ CreateWithKeywords
               \/ UpdateWithKeywords
               \/ Respond]_vars

\* Requests that save reverse relations on each of the four save paths: a
\* root with children and a profile through the nested create and update, a
\* reverse parent with children through RelatedSaveMixin.save and through
\* GetOrCreateNestedSerializerMixin.save.  A child may come without its name.
ReverseOwnerData ==
    LET ReverseChildData == [name : ClashNames] \cup {<<>>}
    IN  [children : SeqsUpTo(ReverseChildData, MaxLen)]

CreateReverse == \E p \in ClashPayloads : NestedCreate(p) /\ Small(store')

UpdateReverse ==
    \E pk \in 1..MaxRoots : \E p \in ClashPayloads : NestedUpdate(pk, p) /\ Small(store')

SaveReverseOwner ==
    \E p \in ReverseOwnerData : \E mo \in MatchOnConfigs :
        SaveRelated("ReverseParentSerializer", p, mo)

SaveNestedReverseOwner ==
    \E p \in ReverseOwnerData : \E mo \in MatchOnConfigs :
        SaveGetOrCreate("NestedReverseParentSerializer", p, mo)

SpecReverse ==
    Init /\ [][\/ CreateReverse
               \/ UpdateReverse
               \/ SaveReverseOwner
               \/ SaveNestedReverseOwner
               \/ Respond]_vars

\* Requests over several reverse relations at once: children (with or without
\* subs of their own), tags (one may come without its name) and a profile.
PhasePayloads ==
    LET PhaseItemPayloads ==
            [name : ClashNames] \cup
                {[id |-> 1, name |-> "a"],
                 [name |-> "b", children |-> <<[name |-> "a"]>>],
                 [id |-> 1, name |-> "b", children |-> <<>>]}
        PhaseTagPayloads == {[name |-> "a"], [id |-> 1, name |-> "a"], <<>>}
        items == SeqsUpTo(PhaseItemPayloads, 1)
        tags == SeqsUpTo(PhaseTagPayloads, 1)
        both == {[name |-> "a", children |-> c, tags |-> t] : c \in items, t \in tags}
    IN  both \cup {[name |-> "a", children |-> c] : c \in items}
             \cup {[name |-> "a", tags |-> t] : t \in tags}
             \cup {[name |-> "a", children |-> <<>>, profile |-> [name |-> "a"], tags |-> t] :
                      t \in tags}

CreatePhased == \E p \in PhasePayloads : NestedCreate(p) /\ Small(store')

UpdatePhased ==
    \E pk \in 1..MaxRoots : \E p \in PhasePayloads : NestedUpdate(pk, p) /\ Small(store')

SpecPhases ==
    Init /\ [][\/ CreatePhased
               \/ UpdatePhased
               \/ Respond]_vars

\* Requests of one of several users, or without a request in the context,
\* that nest an item, a sub and a leaf under the root; the serializers of the
\* subs and of the leaves default `owner` to the current user.
MaxUsers == 2

Contexts ==
    {[request |-> [user |-> [pk |-> u]]] : u \in 1..MaxUsers} \cup {<<>>}

ContextPayloads ==
    LET ContextLeafPayloads == [name : {"a"}] \cup [id : {1}, name : {"a"}]
        ContextSubPayloads ==
            {Put(b, "children", l) :
                b \in [name : {"a"}] \cup [id : {1}, name : {"a"}],
                l \in SeqsUpTo(ContextLeafPayloads, 1)}
        ContextItemPayloads ==
            {Put(b, "children", l) :
                b \in [name : ClashNames] \cup [id : {1}, name : {"a"}],
                l \in SeqsUpTo(ContextSubPayloads, 1)}
    IN  {[name |-> "a", children |-> c] : c \in SeqsUpTo(ContextItemPayloads, 1)}

CreateInContext ==
    \E c \in Contexts : \E p \in ContextPayloads :
        NestedCreateBy([context |-> c, partial |-> FALSE], p, <<>>) /\ Small(store')

UpdateInContext ==
    \E c \in Contexts : \E pk \in 1..MaxRoots : \E p \in ContextPayloads :
        NestedUpdateBy([context |-> c, partial |-> FALSE], pk, p, <<>>) /\ Small(store')

SpecContext ==
    Init /\ [][\/ CreateInContext
               \/ UpdateInContext
               \/ Respond]_vars

\* Validation by a get-or-create serializer of the children, declared with
\* any validators on its name and on itself, over a store that may hold
\* children of that name.
DeclaredValidators ==
    [fields : [{"id", "name"} -> SeqsUpTo(FieldValidators, MaxValidators)],
     validators : SeqsUpTo(SerializerValidators, MaxValidators)]

SeedChild == SaveGetOrCreate("ChildSerializer", [name |-> "a"], MatchOnPk)

RunValidation ==
    /\ last.op = "none"
    /\ \E declared \in DeclaredValidators : \E data \in [name : {"a", LongName}] :
           \E r \in {GetOrCreateRunValidation(declared, "ChildSerializer", data,
                                               World(store))} :
               last' = [op |-> "run_validation", instance |-> 0, payload |-> data,
                        data |-> data, pre |-> store, err |-> r.err, log |-> <<>>,
                        match_on |-> <<>>, kwargs |-> <<>>,
                        serializer |-> [declared |-> declared,
                                        fields |-> r.self.fields,
                                        validators |-> r.self.validators]]
    /\ UNCHANGED store

SpecValidators ==
    Init /\ [][\/ SeedChild
               \/ RunValidation
               \/ Respond]_vars

\* ------------------------------------------------------------------ claims
\* The rows of model m linked to parent pk through their foreign key.
ChildrenOf(st, m, pk) == {r \in st.rows : r.m = m /\ r.parent = pk}

Pks(rows) == {r.pk : r \in rows}

\* The indices of the items that name a row of model m that existed in st.
Matching(st, m, items) ==
    {i \in DOMAIN items : NamedPk(items[i]) \in Pks({r \in st.rows : r.m = m})}

\* The last item of the list that names primary key pk.
LastNaming(items, pk) ==
    items[CHOOSE i \in DOMAIN items :
              /\ NamedPk(items[i]) = pk
              /\ \A j \in DOMAIN items : NamedPk(items[j]) = pk => j <= i]

UpdatedChildren ==
    /\ last.op = "update"
    /\ ~Failed(last.err)
    /\ Has(last.payload, "children")

\* C1: after a successful update of a root with a list of children, the
\* children linked to the root are exactly those the payload describes: the
\* listed existing children, with the payload's attributes, and one new child
\* per item that names no existing child; every previously linked child the
\* payload does not list is gone from the store.
C1_UpdateReconcilesChildren ==
    UpdatedChildren =>
        LET items == last.payload["children"]
            before == Pks({r \in last.pre.rows : r.m = "Item"})
            linked == ChildrenOf(store, "Item", last.instance)
            matched == Matching(last.pre, "Item", items)
            listed == {NamedPk(items[i]) : i \in matched}
            fresh == {r \in linked : r.pk \notin before}
        IN  /\ Pks(linked) \cap before = listed
            /\ \A r \in ChildrenOf(last.pre, "Item", last.instance) :
                   r.pk \notin listed => ~Exists(store, "Item", r.pk)
            /\ \A r \in linked :
                   r.pk \in listed => r.name = LastNaming(items, r.pk).name
            /\ Cardinality(fresh) = Cardinality(DOMAIN items \ matched)
            /\ {r.name : r \in fresh} = {items[i].name : i \in DOMAIN items \ matched}

\* C1 witness: an update that kept a listed child, removed an unlisted one and
\* created a new one.
C1_Witness ==
    /\ UpdatedChildren
    /\ \E r \in ChildrenOf(last.pre, "Item", last.instance) :
           ~Exists(store, "Item", r.pk)
    /\ \E r \in ChildrenOf(last.pre, "Item", last.instance) :
           Exists(store, "Item", r.pk)
    /\ \E r \in ChildrenOf(store, "Item", last.instance) :
           ~Exists(last.pre, "Item", r.pk)

\* The request wrote (inserted or updated) the row of the sub-payload at path.
Wrote(log, path) ==
    \E e \in DOMAIN log : log[e].ev \in {"insert", "update"} /\ log[e].path = path

\* The request ended with a validation error under the relation field f.
FailedUnder(f) == last.err.k = "dict" /\ last.err.key = f

\* C7: when a list of children fails, the error under the field is a list
\* with one entry per item, in input order: the empty object at the place of
\* every item that was saved, the item's own error at the place of every item
\* that was not (its unique name was held by another row when it was tried:
\* a row of the store before the request, or one an earlier item had written);
\* every item is attempted, also after a failed one.  For the
\* one-to-one profile the error is the error object itself.
C7_ErrorsPerItem ==
    /\ FailedUnder("children") =>
           LET items == last.payload["children"]
               d == last.err.val[1]
           IN  /\ d.k = "list"
               /\ Len(d.val) = Len(items)
               /\ \A j \in DOMAIN items :
                      IF Wrote(last.log, << <<"children", j>> >>)
                      THEN d.val[j] = EmptyDetail
                      ELSE /\ d.val[j] = Under("name", Msg("unique"))
                           /\ \/ \E r \in last.pre.rows :
                                     /\ r.m = "Item"
                                     /\ r.name = items[j].name
                                     /\ (j \in Matching(last.pre, "Item", items)
                                            => r.pk # NamedPk(items[j]))
                              \/ \E i \in 1..(j - 1) :
                                     /\ Wrote(last.log, << <<"children", i>> >>)
                                     /\ items[i].name = items[j].name
    /\ FailedUnder("profile") => last.err.val[1] = Under("name", Msg("unique"))
    /\ (last.op # "none" /\ ~Failed(last.err) /\ Has(last.payload, "children")) =>
           \A j \in DOMAIN last.payload["children"] :
               Wrote(last.log, << <<"children", j>> >>)

\* C7 witness: a list whose first item failed and whose second item was saved
\* all the same.
C7_Witness ==
    /\ FailedUnder("children")
    /\ Len(last.payload["children"]) = 2
    /\ ~Wrote(last.log, << <<"children", 1>> >>)
    /\ Wrote(last.log, << <<"children", 2>> >>)

\* C7 witness for the one-to-one relation.
C7_WitnessOneToOne == FailedUnder("profile")

\* C8 as stated: a save that ends with a validation error for the children
\* has created or modified none of the children.
C8_NoPartialSuccess ==
    FailedUnder("children") =>
        {r \in store.rows : r.m = "Item"} = {r \in last.pre.rows : r.m = "Item"}

\* The request wrote the root row.
WroteRoot == Wrote(last.log, <<>>)

\* The direct relations of the last payload that are given and not null.
GivenDirect ==
    {f \in {"owner", "backup"} : Has(last.payload, f) /\ ~IsNull(last.payload[f])}

\* What saving the sub-payload of direct relation f alone would answer in a
\* store st.
AloneErr(st, f) ==
    LET d == last.payload[f]
        found == {r \in st.rows : r.m = "Owner" /\ r.pk = NamedPk(d)}
    IN  Save("Owner", Plain, IF found = {} THEN Null ELSE CHOOSE r \in found : TRUE,
             d, <<>>, World(st), <<>>).err

\* C10: a direct relation whose sub-payload fails validation gives the caller
\* an error with the field's name as its single key and the child's own error
\* as the value, and the root row is neither created nor updated.
\* A validation error that leaves the root unwritten is such an error: the
\* root's own fields always validate here.
C10_DirectErrorUnderField ==
    /\ \A f \in {"owner", "backup"} :
           FailedUnder(f) =>
               /\ f \in GivenDirect
               /\ last.err.val[1] = Under("name", Msg("unique"))
               /\ f = "owner" => last.err.val[1] = AloneErr(last.pre, f)
               /\ ~WroteRoot
               /\ {r \in store.rows : r.m = "Root"} = {r \in last.pre.rows : r.m = "Root"}
    /\ (last.op # "none" /\ IsValidationError(last.err) /\ ~WroteRoot) =>
           \E f \in GivenDirect : FailedUnder(f)
    /\ (/\ last.op # "none"
        /\ "owner" \in GivenDirect
        /\ Failed(AloneErr(last.pre, "owner"))) => FailedUnder("owner")

\* C10 witness: the backup owner failed after the owner had been saved.
C10_Witness ==
    /\ FailedUnder("backup")
    /\ Wrote(last.log, << <<"owner", 0>> >>)

\* C9 as stated: when two relations of a root each hold invalid data, the
\* error of the save has an entry for each of them.
C9_EveryFailureReported ==
    (/\ last.op # "none"
     /\ GivenDirect = {"owner", "backup"}
     /\ Failed(AloneErr(last.pre, "owner"))
     /\ Failed(AloneErr(last.pre, "backup")))
        => FailedUnder("owner") /\ FailedUnder("backup")

\* The tags joined to root pk.
TagsOf(st, pk) == {l[2] : l \in {x \in st.links : x[1] = pk}}

UpdatedTags ==
    /\ last.op = "update"
    /\ ~Failed(last.err)
    /\ Has(last.payload, "tags")

\* C3: after a successful update of a root with a list of tags, the root is
\* joined to exactly the tags of the payload (the listed existing tags and one
\* new tag per item that names none); a tag that was joined and is not listed
\* loses its join row only and is still a row of the store, unchanged.
C3_ManyToManyDetaches ==
    UpdatedTags =>
        LET items == last.payload["tags"]
            before == Pks({r \in last.pre.rows : r.m = "Tag"})
            matched == Matching(last.pre, "Tag", items)
            listed == {NamedPk(items[i]) : i \in matched}
            joined == TagsOf(store, last.instance)
        IN  /\ joined \cap before = listed
            /\ Cardinality(joined \ before) = Cardinality(DOMAIN items \ matched)
            /\ \A pk \in joined : Exists(store, "Tag", pk)
            /\ \A pk \in TagsOf(last.pre, last.instance) \ listed :
                   /\ pk \notin joined
                   /\ GetRow(last.pre, "Tag", pk) \in store.rows

\* C3 witness: an update that detached a tag, kept one and joined a new one.
C3_Witness ==
    /\ UpdatedTags
    /\ TagsOf(last.pre, last.instance) \ TagsOf(store, last.instance) # {}
    /\ TagsOf(last.pre, last.instance) \cap TagsOf(store, last.instance) # {}
    /\ TagsOf(store, last.instance) \ TagsOf(last.pre, last.instance) # {}

\* Re-reading the children of row pk of model m gives what the sub-payloads
\* describe: one row per sub-payload, the row the save reports for it (the row
\* it names, or a row that did not exist before), with its name, and so on
\* below it.
RECURSIVE RoundTrips(_, _, _, _, _)
RoundTrips(m, pk, items, saved, pre) ==
    LET cm == FieldModel(m, "children")
        rows == ChildrenOf(store, cm, pk)
    IN  /\ Len(saved) = Len(items)
        /\ \A i \in DOMAIN items : Has(saved[i], "pk")
        /\ Pks(rows) = {saved[i]["pk"] : i \in DOMAIN items}
        /\ Cardinality(rows) = Len(items)
        /\ \A i \in DOMAIN items :
               LET row == GetRow(store, cm, saved[i]["pk"])
               IN  /\ row.name = items[i].name
                   /\ row.pk = NamedPk(items[i]) \/ ~Exists(pre, cm, row.pk)
                   /\ Has(items[i], "children") =>
                          RoundTrips(cm, row.pk, items[i]["children"],
                                     saved[i]["children"], pre)

CreatedChildren ==
    /\ last.op = "create"
    /\ ~Failed(last.err)
    /\ Has(last.payload, "children")

\* Every primary key the payload names is that of a row of the store st.
NamesExistingKeys(st, items) ==
    /\ \A i \in DOMAIN items :
           NamedPk(items[i]) # 0 => Exists(st, "Item", NamedPk(items[i]))
    /\ \A x \in LeafKeys(items) : Exists(st, "Leaf", x[2])

WritesAt(p) ==
    {e \in DOMAIN last.log :
        last.log[e].ev \in {"insert", "update"} /\ last.log[e].path = p}

\* The payload paths of the rows a payload describes: the payload itself, the
\* sub-payload of each direct relation and every item of each list.
RECURSIVE PayloadPaths(_, _)
PayloadPaths(data, p) ==
    {p} \cup
    UNION {PayloadPaths(data[f], Append(p, <<f, 0>>)) :
              f \in {x \in DOMAIN data \cap {"child", "owner"} : ~IsNull(data[x])}} \cup
    UNION {UNION {PayloadPaths(data[f][j], Append(p, <<f, j>>)) : j \in DOMAIN data[f]} :
              f \in DOMAIN data \cap {"children"}}

\* The direct relations of the last payload, each as the path of its owner and
\* the name of the field.
DirectRelations ==
    {pf \in PayloadPaths(last.payload, <<>>) \X {"child", "owner"} :
        Append(pf[1], <<pf[2], 0>>) \in PayloadPaths(last.payload, <<>>)}

\* The number of rows of model m in a store.
Count(st, m) == Cardinality({r \in st.rows : r.m = m})

\* C4: in each of the four save paths, every write of a row that owns a direct
\* relation comes after a write of the relation's target, the target is in the
\* store under the primary key that write gave it, and the owning row's foreign
\* key is that primary key; a payload with one direct relation whose target
\* names no existing row makes one child row and one parent row.
C4_TargetBeforeOwner ==
    /\ \A pf \in DirectRelations :
          \A j \in WritesAt(pf[1]) :
              \E i \in WritesAt(Append(pf[1], <<pf[2], 0>>)) :
                  /\ i < j
                  /\ last.log[i].pk > 0
                  /\ Exists(store, last.log[i].m, last.log[i].pk)
                  /\ Exists(store, last.log[j].m, last.log[j].pk)
                  /\ GetRow(store, last.log[j].m, last.log[j].pk)[pf[2]] = last.log[i].pk
    /\ (/\ last.op \in {"ParentSerializer", "NestedParentSerializer"}
        /\ last.match_on["ChildSerializer"] = DEFAULT_MATCH_ON) =>
           /\ ~Failed(last.err)
           /\ Count(store, "Child") = Count(last.pre, "Child") + 1
           /\ Count(store, "Parent") = Count(last.pre, "Parent") + 1
    /\ (/\ last.op = "create"
        /\ ~Failed(last.err)
        /\ NamedPk(last.payload["owner"]) = 0) =>
           /\ Count(store, "Owner") = Count(last.pre, "Owner") + 1
           /\ Count(store, "Root") = Count(last.pre, "Root") + 1
    /\ (last.op # "none" /\ ~Failed(last.err)) =>
           \A pf \in DirectRelations : WritesAt(pf[1]) # {}

\* C4 witness: a grandparent was saved over a parent and a child, a save
\* through RelatedSaveMixin over one through the get-or-create mixin.
C4_Witness ==
    /\ last.op = "GrandParentSerializer"
    /\ ~Failed(last.err)
    /\ Len(last.log) = 3

\* C4 witness, nested update: a root was updated after its owner was.
C4_WitnessUpdate ==
    /\ last.op = "update"
    /\ ~Failed(last.err)
    /\ WritesAt(<< <<"owner", 0>> >>) # {}

\* C5: a save that succeeds writes each row its payload describes once, at
\* every level, and writes nothing else; the three-level payload saved with
\* the serializers of the test leaves one more row of each of the three models.
C5_EachChildOnce ==
    (last.op # "none" /\ ~Failed(last.err)) =>
        /\ \A p \in PayloadPaths(last.payload, <<>>) : Cardinality(WritesAt(p)) = 1
        /\ Len(last.log) = Cardinality(PayloadPaths(last.payload, <<>>))
        /\ (/\ last.op = "GrandParentSerializer"
            /\ last.match_on["ChildSerializer"] = DEFAULT_MATCH_ON) =>
               \A m \in {"GrandParent", "Parent", "Child"} :
                   Count(store, m) = Count(last.pre, m) + 1

\* C5 witness: the three-level payload of the test was saved.
C5_Witness ==
    /\ last.op = "GrandParentSerializer"
    /\ last.match_on["ChildSerializer"] = DEFAULT_MATCH_ON
    /\ ~Failed(last.err)
    /\ last.pre.rows = {}

\* C5 witness, lists: a reverse parent was saved with two children.
C5_WitnessList ==
    /\ last.op = "ReverseParentSerializer"
    /\ ~Failed(last.err)
    /\ Len(last.payload["children"]) = 2

\* The child rows a save of the last payload has written before: the rows
\* that hold what the payload describes.
WrittenBefore ==
    {r \in last.pre.rows : r.m = "Child" /\ r.name = last.payload["name"]}

\* C6 as stated: under every match_on, a save of a child payload that was
\* saved before finds the row written then and updates it, so the number of
\* rows stays; a save that finds no row makes one new row.
C6_GetOrCreateIdempotent ==
    last.op = "ChildSerializer" =>
        /\ ~Failed(last.err)
        /\ IF WrittenBefore # {}
           THEN /\ Count(store, "Child") = Count(last.pre, "Child")
                /\ last.instance \in Pks(WrittenBefore)
           ELSE /\ Count(store, "Child") = Count(last.pre, "Child") + 1
                /\ ~Exists(last.pre, "Child", last.instance)
                /\ Exists(store, "Child", last.instance)

\* ------------------------------------------------------------------ protection
\* The children of the updated root, as the request found them, that no item
\* of the payload names.
StaleChildren ==
    {r \in ChildrenOf(last.pre, "Item", last.instance) :
        \A i \in DOMAIN last.payload["children"] :
            NamedPk(last.payload["children"][i]) # r.pk}

\* The rows that kept the stale children from being deleted.
Blockers == ProtectedObjects(World(last.pre), StaleChildren)

GivenChildren == last.payload["children"]

\* The request failed with a uniqueness error of one of the children.
UniqueErrorInChildren ==
    /\ FailedUnder("children")
    /\ \E j \in DOMAIN last.err.val[1].val :
           last.err.val[1].val[j] = Under("name", Msg("unique"))

\* The only rows that held the name of an item of the payload when the
\* request came in are the row the item itself names and siblings the update
\* replaces (children of the root that no item names); no two items give the
\* same name, and at least one item gives the name of a replaced sibling.
ClashesOnlyWithReplaced ==
    /\ \A i, j \in DOMAIN GivenChildren :
           i # j => GivenChildren[i]["name"] # GivenChildren[j]["name"]
    /\ \A i \in DOMAIN GivenChildren :
           \A r \in RowsOf(World(last.pre), "Item") :
               r.name = GivenChildren[i]["name"] =>
                   r.pk = NamedPk(GivenChildren[i]) \/ r \in StaleChildren
    /\ \E i \in DOMAIN GivenChildren : \E r \in StaleChildren :
           r.name = GivenChildren[i]["name"]

\* C12: an update whose payload gives a child the unique name of a sibling
\* that the same update removes does not fail with a uniqueness error.
C12_ReplacedSiblingName ==
    (last.op = "update" /\ ClashesOnlyWithReplaced) => ~UniqueErrorInChildren

\* Another row held the unique name the request gives when the request came in.
NameHeld ==
    /\ Has(last.payload, "name")
    /\ \E r \in RowsOf(World(last.pre), "Item") :
           /\ r.name = last.payload["name"]
           /\ (last.op = "update_item" => r.pk # last.instance)

\* C13: the uniqueness check is made when create or update is about to write
\* the row: if another row holds the value, the save raises a validation
\* error under the field's name and writes nothing; otherwise the row is
\* written.
C13_UniqueCheckedAtSave ==
    last.op \in {"create_item", "update_item"} =>
        IF NameHeld
        THEN /\ last.err = Under("name", Msg("unique"))
             /\ last.log = <<>>
             /\ store = last.pre
        ELSE /\ ~Failed(last.err)
             /\ WroteRoot

\* ------------------------------------------------------------------ validators
\* The uniqueness validators of a list, in the order of the list.
UniquenessOf(validators) ==
    SelectSeq(validators,
              LAMBDA v : IsUniqueValidator(v) \/ IsUniqueTogetherValidator(v))

\* A message of the validation error of the request is `code`.
ErrorSays(code) ==
    /\ last.err.k = "dict"
    /\ \E i \in DOMAIN last.err.val[1].val : last.err.val[1].val[i] = Msg(code)

\* C14: run_validation of a get-or-create serializer is a round trip on the
\* validators: no uniqueness validator is attached while the data is
\* validated (a name that a row holds is not rejected as a duplicate), and a
\* validation of data that the other validators accept returns, with every
\* field and the serializer carrying the uniqueness validators they carried
\* before the call.
C14_ValidatorsRoundTrip ==
    last.op = "run_validation" =>
        /\ ~ErrorSays("unique")
        /\ last.payload["name"] # LongName =>
               /\ ~Failed(last.err)
               /\ \A f \in DOMAIN last.serializer.fields :
                      UniquenessOf(last.serializer.fields[f])
                          = UniquenessOf(last.serializer.declared.fields[f])
               /\ UniquenessOf(last.serializer.validators)
                      = UniquenessOf(last.serializer.declared.validators)

\* ------------------------------------------------------------------ re-entry
\* The rows of model m the request inserted.
Inserted(m) == {e \in DOMAIN last.log : last.log[e].ev = "insert" /\ last.log[e].m = m}

\* C15: a serializer that saves through RelatedSaveMixin.save and has
\* persisted its row does nothing when save is called on it again: no row,
\* of the root or of a direct or reverse relation, is written, and the
\* serializer stays saved.  A save that persists the row persists it once,
\* also when reverse children that point back at it are saved after it.
C15_SavedOnce ==
    /\ last.op = "save_again" =>
           /\ last.log = <<>>
           /\ store = last.pre
           /\ ~Failed(last.err)
           /\ last.serializer.is_saved
    /\ last.op \in RelatedSaveSerializers =>
           /\ last.serializer.is_saved <=> Cardinality(Inserted(SerializerModel(last.op))) = 1
           /\ Cardinality(Inserted(SerializerModel(last.op))) <= 1

\* A parent that was saved with two reverse children is saved again.
C15_Witness ==
    /\ last.op = "save_again"
    /\ last.serializer.class = "ReverseParentSerializer"
    /\ Len(last.payload["children"]) = 2
    /\ \E r \in store.rows : r.m = "ReverseChild"

\* A parent whose direct child was saved before it is saved again.
C15_WitnessDirect ==
    /\ last.op = "save_again"
    /\ last.serializer.class = "GrandParentSerializer"

\* ------------------------------------------------------------------ context
\* The rows of the models with a context default that the request wrote and
\* that are in the store.
WrittenInContext ==
    {r \in store.rows :
        /\ r.m \in ContextModels
        /\ \E e \in DOMAIN last.log :
               /\ last.log[e].ev \in {"insert", "update"}
               /\ last.log[e].m = r.m
               /\ last.log[e].pk = r.pk}

\* C16: the context of the root serializer reaches every nested serializer,
\* the doubly and the triply nested one too: a row whose owner defaults to
\* the current user gets the user of the root's context, and when that context
\* holds a request no nested serializer fails for want of one.
C16_ContextReachesChildren ==
    last.op \in {"create", "update"} =>
        IF Has(last.serializer.context, "request")
        THEN /\ last.err # Exc("KeyError")
             /\ \A r \in WrittenInContext :
                    r.owner = last.serializer.context["request"].user.pk
        ELSE WrittenInContext = {}

\* A request of the second user wrote a sub and its leaf.
C16_Witness ==
    /\ last.op \in {"create", "update"}
    /\ Has(last.serializer.context, "request")
    /\ last.serializer.context["request"].user.pk = 2
    /\ \E r \in WrittenInContext : r.m = "Sub"
    /\ \E r \in WrittenInContext : r.m = "Leaf"

\* ------------------------------------------------------------------ keywords
\* The relation fields of the payload whose keyword argument is no mapping.
NonMappingGiven ==
    {f \in DOMAIN last.kwargs \cap DOMAIN last.payload : ~IsMapping(last.kwargs[f])}

\* The request wrote a row before it failed with the type error.
WroteBeforeTypeError == last.err = Exc("TypeError") /\ last.log # <<>>

\* C17: a save that is given, for a relation field of the payload, a keyword
\* argument that is no mapping fails with the type error before it has
\* written any row, of the root or of a relation.
C17_ContractErrorFirst ==
    (last.op \in {"create", "update"} /\ NonMappingGiven # {}) =>
        /\ last.err = Exc("TypeError")
        /\ last.log = <<>>
        /\ store = last.pre

\* ------------------------------------------------------------------ reverse order
\* The fields whose relation is a reverse one: the child row holds the foreign
\* key `parent` to the owning row.
ReverseFields == {"children", "profile"}

\* The writes of children of a reverse relation in the last request's log.
ChildWrites ==
    {e \in DOMAIN last.log :
        /\ last.log[e].ev \in {"insert", "update"}
        /\ last.log[e].path # <<>>
        /\ last.log[e].path[Len(last.log[e].path)][1] \in ReverseFields}

\* The path of the row that owns the row written at path p.
OwnerPath(p) == SubSeq(p, 1, Len(p) - 1)

\* The save paths of the claim.
ReverseSavePaths ==
    {"create", "update", "ReverseParentSerializer", "NestedReverseParentSerializer"}

\* C18: on each of the four save paths, every write of a child of a reverse
\* relation comes after a write of the owning row, which has a primary key by
\* then; the child is in the store and its foreign key is that primary key; and
\* the payload of one child without a parent reference, saved by the reverse
\* parent serializer of the test, validates and leaves one more parent and one
\* more child, the child pointing at the new parent.
C18_OwnerBeforeReverseChild ==
    /\ last.op \in ReverseSavePaths =>
           \A e \in ChildWrites :
               \E i \in WritesAt(OwnerPath(last.log[e].path)) :
                   /\ i < e
                   /\ last.log[i].pk > 0
                   /\ Exists(store, last.log[i].m, last.log[i].pk)
                   /\ Exists(store, last.log[e].m, last.log[e].pk)
                   /\ GetRow(store, last.log[e].m, last.log[e].pk).parent = last.log[i].pk
    /\ (/\ last.op = "ReverseParentSerializer"
        /\ last.match_on["ReverseChildSerializer"] = DEFAULT_MATCH_ON
        /\ Len(last.payload["children"]) = 1
        /\ Has(last.payload["children"][1], "name")) =>
           /\ ~Failed(last.err)
           /\ Count(store, "ReverseParent") = Count(last.pre, "ReverseParent") + 1
           /\ Count(store, "ReverseChild") = Count(last.pre, "ReverseChild") + 1
           /\ \E r \in store.rows \ last.pre.rows :
                  r.m = "ReverseChild" /\ r.parent = last.instance
           /\ ~Exists(last.pre, "ReverseParent", last.instance)

\* C18 witness: the payload of the test was saved next to an older parent.
C18_Witness ==
    /\ last.op = "ReverseParentSerializer"
    /\ last.match_on["ReverseChildSerializer"] = DEFAULT_MATCH_ON
    /\ Len(last.payload["children"]) = 1
    /\ ChildWrites # {}
    /\ Count(last.pre, "ReverseParent") > 0

\* C18 witness, nested update: a child was updated and one was made under a root.
C18_WitnessUpdate ==
    /\ last.op = "update"
    /\ \E e, i \in ChildWrites : last.log[e].ev = "update" /\ last.log[i].ev = "insert"

\* C18 witness, nested create: children and a profile were made under a root.
C18_WitnessCreate ==
    /\ last.op = "create"
    /\ \E e, i \in ChildWrites : last.log[e].m = "Item" /\ last.log[i].m = "Profile"

\* C18 witness, get-or-create: two children were saved under a parent.
C18_WitnessGetOrCreate ==
    /\ last.op = "NestedReverseParentSerializer"
    /\ Cardinality(ChildWrites) = 2

\* ------------------------------------------------------------------ phases
\* The places in the last request's log where stale rows of a relation are
\* deleted or detached: the visits of the deletion phase.
Deletions == {e \in DOMAIN last.log : last.log[e].ev \in {"delete", "remove"}}

\* The places where the create/update phase writes: rows made or changed and
\* tags attached.
PhaseWrites == {e \in DOMAIN last.log : last.log[e].ev \in {"insert", "update", "add"}}

\* Path p leads to path q from above.
IsPrefix(p, q) == Len(p) < Len(q) /\ SubSeq(q, 1, Len(p)) = p

\* The relation field under which the event at place e happened.
FieldOf(e) == last.log[e].path[Len(last.log[e].path)][1]

\* The deletions of the serializer at path p, and the writes of its relation f.
DeletionsOf(p) == {d \in Deletions : OwnerPath(last.log[d].path) = p}
WritesUnder(p, f) ==
    {e \in PhaseWrites : IsPrefix(p, last.log[e].path) /\ last.log[e].path[Len(p) + 1][1] = f}

\* The reverse relations a payload gives its root.
GivenReverse == DOMAIN last.payload \cap {"children", "profile", "tags"}

\* C19: stale rows are deleted or detached only by a serializer that updates
\* its row, never by one that creates it; every write of that serializer's
\* relations, at any depth, comes before its first deletion; a request that
\* fails in the create/update phase deletes nothing for its root, and one that
\* succeeds visits each given reverse relation once; and of two relations the
\* one whose rows were written first has its stale rows removed last.
C19_DeletionPhase ==
    last.op \in {"create", "update"} =>
        /\ \A d \in Deletions :
               /\ WritesAt(OwnerPath(last.log[d].path)) # {}
               /\ \A i \in WritesAt(OwnerPath(last.log[d].path)) :
                      last.log[i].ev = "update" /\ i < d
               /\ \A e \in PhaseWrites :
                      IsPrefix(OwnerPath(last.log[d].path), last.log[e].path) => e < d
        /\ last.op = "create" => DeletionsOf(<<>>) = {}
        /\ Failed(last.err) => DeletionsOf(<<>>) = {}
        /\ (last.op = "update" /\ ~Failed(last.err)) =>
               /\ {FieldOf(d) : d \in DeletionsOf(<<>>)} = GivenReverse
               /\ Cardinality(DeletionsOf(<<>>)) = Cardinality(GivenReverse)
        /\ \A d1 \in Deletions : \A d2 \in DeletionsOf(OwnerPath(last.log[d1].path)) :
               (/\ FieldOf(d1) # FieldOf(d2)
                /\ \E e1 \in WritesUnder(OwnerPath(last.log[d1].path), FieldOf(d1)) :
                   \E e2 \in WritesUnder(OwnerPath(last.log[d1].path), FieldOf(d2)) :
                       e1 < e2) => d2 < d1

\* C19 witness: an update wrote a child and a tag and then removed a stale tag
\* and a stale child.
C19_Witness ==
    /\ last.op = "update"
    /\ ~Failed(last.err)
    /\ WritesUnder(<<>>, "children") # {}
    /\ WritesUnder(<<>>, "tags") # {}
    /\ \E d1, d2 \in DeletionsOf(<<>>) :
           /\ last.log[d1].ev = "delete" /\ last.log[d1].pks # {}
           /\ last.log[d2].ev = "remove" /\ last.log[d2].pks # {}

\* C19 witness, create: a root was created over a child that was updated and
\* lost a stale sub.
C19_WitnessCreate ==
    /\ last.op = "create"
    /\ \E d \in Deletions : last.log[d].pks # {}

\* C19 witness, failure: an update failed on its tags after its children were
\* written.
C19_WitnessFailed ==
    /\ last.op = "update"
    /\ IsValidationError(last.err)
    /\ WritesUnder(<<>>, "children") # {}
    /\ \E r \in last.pre.rows : r.m = "Item" /\ r.parent = last.instance
                                  /\ Str(r.pk) \notin extract_related_pks(last.data["children"])

\* ------------------------------------------------------------------ absent fields
\* The relation fields of the root that the raw payload of the last request
\* leaves out.
AbsentRelations ==
    {NestedFields("Root")[i] : i \in DOMAIN NestedFields("Root")} \ DOMAIN last.payload

\* The places in the last request's log of what happened under relation f of
\* the root: rows made, changed or deleted, tags attached or detached.
EventsUnder(f) ==
    {e \in DOMAIN last.log : last.log[e].path # <<>> /\ last.log[e].path[1][1] = f}

\* C20 as stated: a relation field the raw payload leaves out raises no error
\* for being left out, in create and in update, also when the validated data
\* holds the field, and nothing is written, detached or deleted under it.
C20_AbsentFieldNoOp ==
    last.op \in {"create", "update"} =>
        \A f \in AbsentRelations :
            /\ last.err # Exc("KeyError")
            /\ EventsUnder(f) = {}

\* ------------------------------------------------------------------ null relations
\* The direct relations the last payload gives as null.
NullDirect ==
    {f \in DOMAIN last.payload \cap {"owner", "backup"} : IsNull(last.payload[f])}

\* C21: a direct relation whose validated value is null is not extracted: the
\* null stays in the data the root is written from, the field is no relation
\* to save, every entry that is no relation is what it was, nothing is
\* validated or written under the field, and the root written has no link.
C21_NullDirectPassedThrough ==
    last.op \in {"create", "update"} =>
        \A f \in NullDirect :
            LET validated_data == Validated("Root", last.payload)
                ex == extract_relations("Root", validated_data)
                nested == {NestedFields("Root")[i] : i \in DOMAIN NestedFields("Root")}
            IN  /\ Has(ex.validated_data, f)
                /\ IsNull(ex.validated_data[f])
                /\ \A i \in DOMAIN ex.relations : ex.relations[i] # f
                /\ \A i \in DOMAIN ex.reverse_relations : ex.reverse_relations[i] # f
                /\ \A x \in DOMAIN validated_data \ nested :
                       Has(ex.validated_data, x) /\ ex.validated_data[x] = validated_data[x]
                /\ EventsUnder(f) = {}
                /\ (last.err # NoErr) => (last.err.k = "exc" \/ last.err.key # f)
                /\ WritesAt(<<>>) # {} =>
                       GetRow(store, "Root", last.instance)[f] = 0

\* C21 witness: an update with a null owner cleared the link of a root that
\* had an owner, and the owner is still there.
C21_Witness ==
    /\ last.op = "update"
    /\ "owner" \in NullDirect
    /\ ~Failed(last.err)
    /\ GetRow(last.pre, "Root", last.instance).owner # 0
    /\ GetRow(store, "Root", last.instance).owner = 0
    /\ Count(store, "Owner") = Count(last.pre, "Owner")

\* ------------------------------------------------------------------ one-to-one
\* The profiles linked to root pk in a store.
ProfilesOf(st, pk) == {r \in st.rows : r.m = "Profile" /\ r.parent = pk}

\* The last request gave its root a profile that names no primary key.
ProfileGiven ==
    /\ last.op \in {"create", "update"}
    /\ Has(last.payload, "profile")
    /\ NamedPk(last.payload["profile"]) = 0

\* C22: when a root that has a profile is updated with a profile that names
\* no key, no second profile is attempted: the root keeps exactly one profile,
\* under the key it had, and a save that succeeds has updated that row to what
\* the payload says and made no profile; a root without a profile gets one new
\* profile when the save succeeds.
C22_OneToOneUpdatedInPlace ==
    ProfileGiven =>
        LET before == ProfilesOf(last.pre, last.instance)
            after == ProfilesOf(store, last.instance)
        IN  /\ last.err # Exc("IntegrityError")
            /\ (last.op = "update" /\ before # {}) =>
                   /\ Cardinality(after) = 1
                   /\ Pks(after) = Pks(before)
                   /\ Inserted("Profile") = {}
                   /\ ~Failed(last.err) =>
                          /\ \A r \in after : r.name = last.payload["profile"].name
                          /\ \E e \in WritesAt(<< <<"profile", 1>> >>) :
                                 last.log[e].ev = "update" /\ Pks(before) = {last.log[e].pk}
            /\ (before = {} /\ ~Failed(last.err)) =>
                   /\ Cardinality(after) = 1
                   /\ Cardinality(Inserted("Profile")) = 1
                   /\ Pks(after) \cap Pks({r \in last.pre.rows : r.m = "Profile"}) = {}
            /\ Inserted("Profile") # {} => before = {}

\* C22 witness: the profile of a root was renamed by an update that names no
\* key.
C22_Witness ==
    /\ ProfileGiven
    /\ last.op = "update"
    /\ ~Failed(last.err)
    /\ \E r \in ProfilesOf(last.pre, last.instance) : r.name # last.payload["profile"].name

\* C22 witness, no profile before: an update gave a root its first profile.
C22_WitnessFirst ==
    /\ ProfileGiven
    /\ last.op = "update"
    /\ ~Failed(last.err)
    /\ ProfilesOf(last.pre, last.instance) = {}

\* ------------------------------------------------------------- partial flag
\* The sub-payloads the last request gave under the owner and the tags of its
\* root, each with the row it matched before the save (Null: none) and the
\* serializer the root's serializer makes for it.
SubSerializers ==
    LET owner ==
            IF Has(last.payload, "owner") /\ ~IsNull(last.payload["owner"])
            THEN {<<"owner", 1, last.payload["owner"]>>} ELSE {}
        tags ==
            IF Has(last.payload, "tags")
            THEN {<<"tags", j, last.payload["tags"][j]>> : j \in DOMAIN last.payload["tags"]}
            ELSE {}
        Matched(f, d) ==
            LET found == {r \in RowsOf(last.pre, FieldModel("Root", f)) :
                             r.pk = NamedPk(d)}
            IN  IF found # {} THEN CHOOSE r \in found : TRUE ELSE Null
    IN  {[field |-> x[1], j |-> x[2], data |-> x[3], obj |-> Matched(x[1], x[3]),
          serializer |-> get_serializer_for_field(last.serializer, Matched(x[1], x[3]))] :
            x \in owner \cup tags}

\* A request of the root serializer has been saved.
RootSaved == last.op \in {"create", "update"}

\* C23 as stated: every sub-schema that is validated again during a save runs
\* with the partial flag of the parent serializer, whether its sub-payload
\* matches an existing entity or not.
C23_PartialInherited ==
    RootSaved =>
        \A x \in SubSerializers : x.serializer.partial = last.serializer.partial

\* C23, amended: a sub-schema validated again during a save runs with the
\* parent's partial flag when its sub-payload matches an existing entity and
\* with the flag off when it matches none.  So an owner without a name that
\* matches nothing is rejected as required even under a partial parent and
\* nothing is written, while one that matches an owner is not rejected for the
\* name it leaves out; a tag without a name is saved unchanged when it
\* matches and rejected when it does not.
C23_PartialOnlyWhenMatched ==
    RootSaved =>
        \A x \in SubSerializers :
            /\ x.serializer.partial = (~IsNull(x.obj) /\ last.serializer.partial)
            /\ x.serializer.context = last.serializer.context
            /\ (x.field = "owner" /\ ~Has(x.data, "name")) =>
                   IF x.serializer.partial
                   THEN ~IsValidationError(last.err)
                   ELSE /\ last.err = Under("owner", Under("name", Msg("required")))
                        /\ last.log = <<>>
            /\ (x.field = "tags" /\ ~Has(x.data, "name") /\ ~Has(last.payload, "owner")) =>
                   IF x.serializer.partial
                   THEN /\ ~Failed(last.err)
                        /\ GetRow(store, "Tag", x.obj.pk).name = x.obj.name
                   ELSE /\ last.err =
                               Under("tags", ListDetail(<<Under("name", Msg("required"))>>))
                        /\ Inserted("Tag") = {}

\* C23 witness: a partial update gave a tag without a name that matches no
\* tag, and it was rejected as required.
C23_Witness ==
    /\ last.op = "update"
    /\ last.serializer.partial
    /\ \E x \in SubSerializers :
           /\ x.field = "tags" /\ ~Has(x.data, "name") /\ IsNull(x.obj)
           /\ ~x.serializer.partial
    /\ last.err = Under("tags", ListDetail(<<Under("name", Msg("required"))>>))

\* C23 witness, matched: a partial update gave a tag without a name that
\* matches a tag, and the save went through.
C23_WitnessMatched ==
    /\ last.op = "update"
    /\ last.serializer.partial
    /\ \E x \in SubSerializers :
           /\ x.field = "tags" /\ ~Has(x.data, "name") /\ ~IsNull(x.obj)
           /\ x.serializer.partial
    /\ ~Failed(last.err)

\* ------------------------------------------------------- validators restored
\* C24: the stripping of the uniqueness validators is confined to the call:
\* once run_validation is over, with a validation error or without, every
\* field and the serializer carry every uniqueness validator they carried
\* before it.
C24_StrippingConfined ==
    last.op = "run_validation" =>
        /\ \A f \in DOMAIN last.serializer.fields :
               UniquenessOf(last.serializer.fields[f])
                   = UniquenessOf(last.serializer.declared.fields[f])
        /\ UniquenessOf(last.serializer.validators)
               = UniquenessOf(last.serializer.declared.validators)

\* ------------------------------------------------------------------ list save
\* The rows of model m the request wrote under item j of the list.
ItemWrites(m, j) ==
    {e \in DOMAIN last.log :
        /\ last.log[e].m = m
        /\ last.log[e].ev \in {"insert", "update"}
        /\ last.log[e].path # <<>>
        /\ last.log[e].path[1] = <<"items", j>>}

\* C25: a list of valid items saved through GetOrCreateListSerializer.save is
\* persisted item by item, in order, with one entity returned per item, and
\* the serializer nested under the reused child persists the relation of
\* every item, not only of the first: each item's grandparent row, its parent
\* row and its child row are written.
C25_EveryItemPersisted ==
    (last.op = "save_list" /\ ~IsValidationError(last.err)) =>
        /\ ~Failed(last.err)
        /\ Len(last.data) = Len(last.payload)
        /\ \A j \in DOMAIN last.payload :
               /\ \E e \in ItemWrites("GrandParent", j) : last.log[e].pk = last.data[j]
               /\ ItemWrites("Parent", j) # {}
               /\ ItemWrites("Child", j) # {}
               /\ GetRow(store, "GrandParent", last.data[j]).child
                      \in {last.log[e].pk : e \in ItemWrites("Parent", j)}
        /\ \A i, j \in DOMAIN last.payload :
               i < j => \A e \in ItemWrites("GrandParent", i) :
                            \A g \in ItemWrites("GrandParent", j) : e < g

\* ------------------------------------------------------------ deletion frame
\* The keys of the rows that relation f of the root links to root pk in a
\* store.
LinkedKeys(st, f, pk) ==
    IF f = "tags"
    THEN {l[2] : l \in {x \in st.links : x[1] = pk}}
    ELSE {r.pk : r \in {x \in st.rows : x.m = FieldModel("Root", f) /\ x.parent = pk}}

\* The deletions of the root's own deletion phase.
RootDeletions == {d \in Deletions : Len(last.log[d].path) = 1}

\* C26: the deletion phase of an update removes only what the relation it
\* reconciles linked to the updated root before the save: every key it
\* deletes or detaches was linked to that root through that relation, a row
\* of another root (or of none) is still there afterwards, and the tags of
\* every other root are still attached to it, whatever keys the payload names.
C26_DeletesOnlyLinked ==
    last.op = "update" =>
        /\ \A d \in RootDeletions :
               last.log[d].pks \subseteq LinkedKeys(last.pre, FieldOf(d), last.instance)
        /\ \A r \in last.pre.rows :
               (r.m \in {"Item", "Profile"} /\ r.parent # last.instance) =>
                   \E x \in store.rows : x.m = r.m /\ x.pk = r.pk
        /\ \A r \in last.pre.rows : r.m = "Tag" => \E x \in store.rows : x.m = r.m /\ x.pk = r.pk
        /\ \A l \in last.pre.links : l[1] # last.instance => l \in store.links

\* C26 witness: an update deleted an item of its root while another root had
\* an item of its own.
C26_Witness ==
    /\ last.op = "update"
    /\ ~Failed(last.err)
    /\ \E d \in RootDeletions : last.log[d].ev = "delete" /\ last.log[d].pks # {}
    /\ \E r \in last.pre.rows :
           r.m = "Item" /\ r.parent \notin {0, last.instance}

\* C26 witness, detached: an update detached a tag from its root that another
\* root carries as well.
C26_WitnessDetached ==
    /\ last.op = "update"
    /\ ~Failed(last.err)
    /\ \E d \in RootDeletions :
           /\ last.log[d].ev = "remove"
           /\ \E pk \in last.log[d].pks :
                  \E l \in store.links : l[2] = pk /\ l[1] # last.instance

\* ------------------------------------------------------------ foreign children
\* C27: the create/update phase of the children of a root leaves every item
\* alone that was not an item of that root before the save: such an item
\* keeps its attributes and its parent, also when a sub-payload names its
\* primary key.
C27_ForeignChildUntouched ==
    last.op \in {"create", "update"} =>
        \A r \in last.pre.rows :
            (r.m = "Item" /\ (last.op = "create" \/ r.parent # last.instance)) =>
                r \in store.rows

====
